---- MODULE Spec2Model ----
(***************************************************************************)
(* Broadcast and delivery engine of the Telegram news bot.                 *)
(*                                                                         *)
(* The model follows the statements of the TypeScript sources.  The SQL    *)
(* the services issue names a few columns that migrations/0001_init.sql    *)
(* does not declare (last_retry_ts, created_ts, subscriptions.status ...); *)
(* the model takes the tables to carry every column the statements name,   *)
(* and keeps the constraints that 0001_init.sql declares (UNIQUE and       *)
(* NOT NULL).  The clock counts milliseconds and advances in ticks of      *)
(* five minutes, the retry interval of the failed-delivery retry manager.  *)
(***************************************************************************)
EXTENDS Integers, Sequences, FiniteSets, TLC

\* ------------------------------------------------------------------ bounds
NumPosts == 1
NumSubs == 2
MaxTicks == 2
MaxSeconds == 2

Posts == 1..NumPosts
Subs == 1..NumSubs
\* two invocations of the scheduled handler may overlap
PassIds == {1, 2}
Sources == {"src1", "src2"}
\* retry_after of a rate-limit answer, in seconds
Delays == {600}

\* -------------------------------------------------------- program constants
MaxRetries == 3
RetryInterval == 300000
\* the clock advances by the retry interval
TickMs == RetryInterval
PostLimit == 20
\* withTelegramRetry gives up on a retry_after above this many seconds
RetryAfterCeiling == 60
\* RateLimiterManager: the global bucket and the bucket of a chat
GlobalCapacity == 30
GlobalRate == 25
ChatCapacity == 2
ChatRate == 1
\* waitForTokens sleeps at most this long before it tries again
MaxSleepMs == 1000
StatusDefault == "active"

Null == -1

\* ---------------------------------------------------------------- state
VARIABLES
    now,          \* wall clock
    posts,        \* posts table: id -> row
    subs,         \* subscriptions table: id (chat) -> row
    deliveries,   \* deliveries table: set of rows
    passes,       \* one record per running CronHandler.executeBroadcast
    retry,        \* FailedDeliveryRetryManager.processFailedDeliveries
    dispatched,   \* gateway calls made by the last step
    sentCount,    \* observer: per pair, the transitions into status sent
    rl,           \* observer: the last rate-limit answer of the gateway
    attempts,     \* observer: per pair, the failed gateway calls (saturating)
    limiter,      \* RateLimiterManager, its caller, and the grants of the last second
    reply,        \* the response to the last subscription request
    run           \* the invocation of withRetry: its options and its progress

vars == <<now, posts, subs, deliveries, passes, retry, dispatched, sentCount, rl, attempts,
          limiter, reply, run>>

\* ------------------------------------------------------------- sequences
RECURSIVE SetToSeq(_)
\* rows of a result set in ascending id order
SetToSeq(S) ==
    IF S = {} THEN <<>>
    ELSE LET m == CHOOSE x \in S : \A y \in S : x <= y
         IN <<m>> \o SetToSeq(S \ {m})

Take(s, n) == IF Len(s) <= n THEN s ELSE SubSeq(s, 1, n)

RECURSIVE SelectSeqBy(_, _)
SelectSeqBy(s, S) ==
    IF s = <<>> THEN <<>>
    ELSE IF Head(s) \in S THEN <<Head(s)>> \o SelectSeqBy(Tail(s), S)
         ELSE SelectSeqBy(Tail(s), S)

\* ------------------------------------------------------- filters_json
FilterAbsent == [kind |-> "absent", usernames |-> {}]
FilterList(U) == [kind |-> "list", usernames |-> U]
FilterInputs == {FilterAbsent, FilterList({}), FilterList({"src2"})}

\* BroadcastService.applyFilters, the predicate of the filter callback
applyFilters(filter, source) ==
    IF filter.kind = "absent" THEN TRUE
    ELSE IF filter.usernames = {} THEN TRUE
         ELSE source \in filter.usernames

\* BroadcastService.filterPostsForSubscription, per post
filterPostsForSubscription(filter, source) ==
    IF filter.kind = "absent" THEN TRUE
    ELSE source \in filter.usernames

\* ------------------------------------------------------- table queries
\* BroadcastService.getUnpublishedPosts: ids ordered by post_date_ts, then
\* created_at_ts (ids are handed out in creation order)
OrderPosts(S) ==
    [k \in 1..Cardinality(S) |->
        CHOOSE x \in S :
            Cardinality({y \in S : \/ posts[y].post_date_ts < posts[x].post_date_ts
                                   \/ /\ posts[y].post_date_ts = posts[x].post_date_ts
                                      /\ y < x}) = k - 1]

\* A selector that reads the delivery ledger: an article with a sent row is
\* left out, which the query of getUnpublishedPosts does not do.
getUnpublishedPosts_ByLedger(limit) ==
    Take(OrderPosts({p \in DOMAIN posts :
                        /\ posts[p].published = 0
                        /\ posts[p].post_date_ts <= now
                        /\ ~\E d \in deliveries : d.post_id = p /\ d.status = "sent"}), limit)

getUnpublishedPosts(limit) ==
    Take(OrderPosts({p \in DOMAIN posts :
                        /\ posts[p].published = 0
                        /\ posts[p].post_date_ts <= now}), limit)

ActiveSubs == {s \in DOMAIN subs : subs[s].enabled = 1 /\ subs[s].confirmed = 1}

\* BroadcastService.getEligibleSubscriptions
getEligibleSubscriptions(source) ==
    SetToSeq({s \in ActiveSubs : applyFilters(subs[s].filters_json, source)})

\* BroadcastService.getAllActiveSubscriptions
getAllActiveSubscriptions == SetToSeq(ActiveSubs)

Row(p, s) == {d \in deliveries : d.post_id = p /\ d.subscription_id = s}
HasStatus(p, s, st) == \E d \in Row(p, s) : d.status = st

\* BroadcastService.isPostFullyPublished
isPostFullyPublished(p) ==
    LET expectedCount == Cardinality(ActiveSubs)
        sentCountOf == Cardinality({d \in deliveries : d.post_id = p /\ d.status = "sent"})
    IN sentCountOf >= expectedCount /\ expectedCount > 0

\* BroadcastService.markPostAsPublished
markPostAsPublished(ps, p) == [ps EXCEPT ![p].published = 1]

\* the INSERT of recordDelivery on a table without the UNIQUE constraint
recordDelivery_NoUnique(ds, p, s, success) ==
    ds \cup {[id |-> Cardinality(ds) + 1, post_id |-> p, subscription_id |-> s,
              status |-> IF success THEN "sent" ELSE "failed",
              retry_count |-> 0, last_retry_ts |-> Null]}

\* TelegramApiService.recordDelivery: a plain INSERT; the UNIQUE(post_id,
\* subscription_id) constraint rejects a second row and the error is swallowed
recordDelivery(ds, p, s, success) ==
    IF \E d \in ds : d.post_id = p /\ d.subscription_id = s THEN ds
    ELSE ds \cup {[id |-> Cardinality(ds) + 1, post_id |-> p, subscription_id |-> s,
                   status |-> IF success THEN "sent" ELSE "failed",
                   retry_count |-> 0, last_retry_ts |-> Null]}

RECURSIVE recordAll(_, _, _, _)
recordAll(ds, ps, s, success) ==
    IF ps = <<>> THEN ds
    ELSE recordAll(recordDelivery(ds, Head(ps), s, success), Tail(ps), s, success)

\* the rows of a pair that are sent in new and were not sent in old
BecameSent(old, new, pr) ==
    {d \in new : /\ d.post_id = pr[1] /\ d.subscription_id = pr[2]
                 /\ d.status = "sent"
                 /\ ~\E o \in old : o.id = d.id /\ o.status = "sent"}

\* the transitions into sent between two table contents, counted up to two
CountSent(old, new, cnt) ==
    [pr \in Posts \X Subs |->
        IF cnt[pr] + Cardinality(BecameSent(old, new, pr)) >= 2 THEN 2
        ELSE cnt[pr] + Cardinality(BecameSent(old, new, pr))]

\* ------------------------------------------------------------- gateway
\* what a sendMessage call meets: an answer of the Bot API (ok, 429 with
\* retry_after, 403 blocked by the user / 400 chat not found), or no answer
Answers == {"ok", "rate_limited", "blocked", "network"}

NoRL == [post |-> 0, sub |-> 0, until |-> 0]

\* the callers of the gateway that call RateLimiterManager.waitForSend for
\* the chat right before the call: the send loops of the two passes.
\* retryDelivery calls sendMessage directly, executePush sleeps 50 ms after
\* each call
waitForSendCallers == {"pass", "batch"}

\* one gateway call for article p to subscription s: sel and dead tell
\* whether, when the recipient was selected, the subscription was eligible
\* and the row of the pair was permanently_failed
Event(p, s, by, answer, d, sel, dead) ==
    [post |-> p, sub |-> s, by |-> by, answer |-> answer,
     retry_after |-> IF answer = "rate_limited" THEN d ELSE 0,
     hadSent |-> HasStatus(p, s, "sent"),
     hadPermFailed |-> dead,
     selected |-> sel,
     acquired |-> by \in waitForSendCallers]

\* eligibility of a subscription for an article, from the stored rows
Eligible(s, source) ==
    /\ s \in DOMAIN subs
    /\ subs[s].enabled = 1
    /\ subs[s].confirmed = 1
    /\ \/ subs[s].filters_json.kind = "absent"
       \/ subs[s].filters_json.usernames = {}
       \/ source \in subs[s].filters_json.usernames

Min(a, b) == IF a <= b THEN a ELSE b

\* ------------------------------------------------------- rate limiter
\* the clock of the limiter advances in steps of half a second
LimiterStepMs == MaxSleepMs \div 2

\* cleanupInactiveLimiters: the size above which the Map is cleaned, and the
\* number of entries it keeps
CleanupThreshold == 1000
CleanupKeep == 500

\* new RateLimiter(capacity, refillRate) at time t: a full bucket
RateLimiter(capacity, t) == [tokens |-> capacity, lastRefill |-> t]

\* A refill that leaves lastRefill where it was: the time already paid
\* out is paid out again at the next refill.
refillTokens_KeepStamp(b, capacity, refillRate, t) ==
    LET tokensToAdd == ((t - b.lastRefill) * refillRate) \div 1000
    IN IF tokensToAdd > 0
       THEN [tokens |-> Min(capacity, b.tokens + tokensToAdd), lastRefill |-> b.lastRefill]
       ELSE b

\* RateLimiter.refillTokens at time t
refillTokens(b, capacity, refillRate, t) ==
    LET tokensToAdd == ((t - b.lastRefill) * refillRate) \div 1000
    IN IF tokensToAdd > 0
       THEN [tokens |-> Min(capacity, b.tokens + tokensToAdd), lastRefill |-> t]
       ELSE b

\* RateLimiter.consume(1) at time t: the answer and the bucket after it
consume(b, capacity, refillRate, t) ==
    LET r == refillTokens(b, capacity, refillRate, t)
    IN IF r.tokens >= 1 THEN [ok |-> TRUE, bucket |-> [r EXCEPT !.tokens = @ - 1]]
       ELSE [ok |-> FALSE, bucket |-> r]

\* A sleep rounded down instead of up: no sleep at all when the bucket
\* refills faster than one token per millisecond counted.
sleepTime_Floor(b, refillRate) ==
    Min((1 - b.tokens) \div refillRate, MaxSleepMs)

\* RateLimiter.waitForTokens(1), the sleep after a refused consume:
\* min(ceil(tokensNeeded / refillRate * 1000), 1000)
sleepTime(b, refillRate) ==
    Min(((1 - b.tokens) * 1000 + refillRate - 1) \div refillRate, MaxSleepMs)

IdleCall == [pc |-> "idle", chatId |-> 0, wake |-> 0]

\* new RateLimiterManager() at time t: a full global bucket, no chat bucket;
\* order holds the keys of the chatLimiters Map in the order of insertion
RateLimiterManager(t) ==
    [globalLimiter |-> RateLimiter(GlobalCapacity, t), chatLimiters |-> <<>>,
     order |-> <<>>]

\* taken records every token taken, with the bucket it came from: the chat,
\* or 0 for the global bucket
NewLimiter ==
    [manager |-> RateLimiterManager(0), call |-> IdleCall, granted |-> <<>>,
     taken |-> <<>>]

\* ------------------------------------------------- subscription rows
\* getCurrentTimestamp: the clock in seconds
getCurrentTimestamp == now \div 1000

\* a row as handleCreateSubscription inserts it
ConfirmedRow(filter, ts) ==
    [enabled |-> 1, confirmed |-> 1, confirm_token |-> Null,
     confirm_token_expire_ts |-> Null, confirmed_at_ts |-> ts,
     filters_json |-> filter, status |-> StatusDefault]

\* a stored row that waits for its confirmation: enabled by the default of
\* the column, not confirmed, with the token and the time it expires
PendingRow(token, expire) ==
    [enabled |-> 1, confirmed |-> 0, confirm_token |-> token,
     confirm_token_expire_ts |-> expire, confirmed_at_ts |-> Null,
     filters_json |-> FilterAbsent, status |-> StatusDefault]

\* the tokens of the requests: the one stored for each chat, and one that
\* no row holds
Tokens == Subs \cup {NumSubs + 1}

\* the stored tokens expire one step of the clock after the start
TokenExpireTs == TickMs \div 1000

NoReply == [op |-> "none", chat |-> 0, token |-> Null, status |-> 0, ok |-> FALSE,
            result |-> "none"]

Reply(op, chat, token, status, ok, result) ==
    [op |-> op, chat |-> chat, token |-> token, status |-> status, ok |-> ok,
     result |-> result]

\* ------------------------------------------------------------ withRetry
\* DEFAULT_RETRY_OPTIONS, the numbers
DEFAULT_RETRY_OPTIONS ==
    [maxRetries |-> 3, initialDelay |-> 1000, backoffMultiplier |-> 2, maxDelay |-> 30000]

\* the options of the callers: the defaults, no retry, one retry, and a
\* ceiling of the delay below the second backoff step
RetryOptionInputs ==
    {[DEFAULT_RETRY_OPTIONS EXCEPT !.maxRetries = m, !.maxDelay = c] :
        m \in {0, 1, DEFAULT_RETRY_OPTIONS.maxRetries},
        c \in {1500, DEFAULT_RETRY_OPTIONS.maxDelay}}

\* what fn throws: the properties the default shouldRetry reads
ThrownInputs ==
    {[code |-> "NETWORK_ERROR", status |-> 0], [code |-> "", status |-> 500],
     [code |-> "", status |-> 429], [code |-> "", status |-> 400]}

NoError == [code |-> "", status |-> 0]

\* DEFAULT_RETRY_OPTIONS.shouldRetry
shouldRetry(error) ==
    \/ error.code \in {"NETWORK_ERROR", "TIMEOUT"}
    \/ error.status >= 500 /\ error.status < 600
    \/ error.status = 429
    \/ error.status = 408

RECURSIVE Pow(_, _)
Pow(b, e) == IF e = 0 THEN 1 ELSE b * Pow(b, e - 1)

\* Math.random() in thousandths
RandomInputs == {0, 500, 999}

\* calculateDelay without the ceiling of maxDelay
calculateDelay_NoCeiling(attempt, options, random) ==
    LET exponentialDelay == options.initialDelay * Pow(options.backoffMultiplier, attempt - 1)
        jitter == (random * exponentialDelay) \div 10000
    IN exponentialDelay + jitter

\* calculateDelay, in whole milliseconds
calculateDelay(attempt, options, random) ==
    LET exponentialDelay == options.initialDelay * Pow(options.backoffMultiplier, attempt - 1)
        jitter == (random * exponentialDelay) \div 10000
        delayWithJitter == exponentialDelay + jitter
    IN Min(delayWithJitter, options.maxDelay)

IdleRun == [pc |-> "idle", opts |-> DEFAULT_RETRY_OPTIONS, attempt |-> 0, calls |-> 0,
            lastError |-> NoError, delayTime |-> 0]

\* ---------------------------------------------------------------- Init
IdlePass == [pc |-> "idle", queue |-> <<>>, recips |-> <<>>]
IdleRetry == [pc |-> "idle", queue |-> <<>>]

Init ==
    /\ now = 0
    /\ posts = <<>>
    /\ subs = <<>>
    /\ deliveries = {}
    /\ passes = [i \in PassIds |-> IdlePass]
    /\ retry = IdleRetry
    /\ dispatched = {}
    /\ sentCount = [pr \in Posts \X Subs |-> 0]
    /\ rl = NoRL
    /\ attempts = [pr \in Posts \X Subs |-> 0]
    /\ limiter = NewLimiter
    /\ run = IdleRun
    /\ reply = NoReply

\* ------------------------------------------------------- environment
Tick ==
    /\ now < MaxTicks * TickMs
    /\ now' = now + TickMs
    /\ dispatched' = {}
    /\ UNCHANGED <<posts, subs, deliveries, passes, retry>>

\* An upsert that sends every stored article back to the queue, which the
\* UPDATE of upsertPost does not do.
upsertPost_ResetPublished(p, source, date) ==
    /\ posts' = IF p \in DOMAIN posts
                THEN [posts EXCEPT ![p].source_username = source, ![p].post_date_ts = date,
                                   ![p].published = 0]
                ELSE [q \in DOMAIN posts \cup {p} |->
                        IF q = p THEN [source_username |-> source, post_date_ts |-> date,
                                       published |-> 0]
                        ELSE posts[q]]
    /\ dispatched' = {}
    /\ UNCHANGED <<now, subs, deliveries, passes, retry>>

\* PostService.upsertPost
upsertPost(p, source, date) ==
    /\ posts' = IF p \in DOMAIN posts
                THEN [posts EXCEPT ![p].source_username = source, ![p].post_date_ts = date]
                ELSE [q \in DOMAIN posts \cup {p} |->
                        IF q = p THEN [source_username |-> source, post_date_ts |-> date,
                                       published |-> 0]
                        ELSE posts[q]]
    /\ dispatched' = {}
    /\ UNCHANGED <<now, subs, deliveries, passes, retry>>

\* POST /api/ingest for one article: a stored url, or the next new one
Ingest(p, source, date) ==
    /\ p \in DOMAIN posts \/ p = Cardinality(DOMAIN posts) + 1
    /\ upsertPost(p, source, date)

\* the PostOperationResult of upsertPost for article p
ingestReply(p) ==
    Reply("ingest", p, Null, 200, TRUE, IF p \in DOMAIN posts THEN "updated" ELSE "created")

\* the UPDATE of handleCreateSubscription without its two token columns
handleCreateSubscription_KeepToken(s, filter) ==
    /\ subs' = IF s \in DOMAIN subs
               THEN [subs EXCEPT ![s].enabled = 1, ![s].confirmed = 1,
                                 ![s].confirmed_at_ts = getCurrentTimestamp,
                                 ![s].filters_json = filter]
               ELSE [t \in DOMAIN subs \cup {s} |->
                        IF t = s THEN ConfirmedRow(filter, getCurrentTimestamp)
                        ELSE subs[t]]
    /\ dispatched' = {}
    /\ UNCHANGED <<now, posts, deliveries, passes, retry>>

\* handleCreateSubscription: the UPDATE of the stored row of the chat, or
\* the INSERT of a new row; either way enabled = 1, confirmed = 1 and no token
handleCreateSubscription(s, filter) ==
    /\ subs' = IF s \in DOMAIN subs
               THEN [subs EXCEPT ![s].enabled = 1, ![s].confirmed = 1,
                                 ![s].confirm_token = Null,
                                 ![s].confirm_token_expire_ts = Null,
                                 ![s].confirmed_at_ts = getCurrentTimestamp,
                                 ![s].filters_json = filter]
               ELSE [t \in DOMAIN subs \cup {s} |->
                        IF t = s THEN ConfirmedRow(filter, getCurrentTimestamp)
                        ELSE subs[t]]
    /\ dispatched' = {}
    /\ UNCHANGED <<now, posts, deliveries, passes, retry>>

CreateSubscription(s, filter) == handleCreateSubscription(s, filter)

\* A hard delete, which the handler does not perform: the row is removed.
handleDeleteSubscription_HardDelete(s) ==
    /\ s \in DOMAIN subs
    /\ subs[s].enabled # 0
    /\ subs' = [t \in DOMAIN subs \ {s} |-> subs[t]]
    /\ dispatched' = {}
    /\ UNCHANGED <<now, posts, deliveries, passes, retry>>

\* handleDeleteSubscription
handleDeleteSubscription(s) ==
    /\ s \in DOMAIN subs
    /\ subs[s].enabled # 0
    /\ subs' = [subs EXCEPT ![s].enabled = 0, ![s].confirmed = 0,
                             ![s].confirm_token = Null,
                             ![s].confirm_token_expire_ts = Null]
    /\ dispatched' = {}
    /\ UNCHANGED <<now, posts, deliveries, passes, retry>>

DeleteSubscription(s) == handleDeleteSubscription(s)

\* the response of handleCreateSubscription
createReply(s) == Reply("create", s, Null, 200, TRUE, "confirmed")

\* the response of handleDeleteSubscription to a request that changes the row
deleteReply(s) == Reply("delete", s, Null, 200, TRUE, "cancelled")

\* CommandHandler.handleSubscribeCommand: /subscribe of the chat; the status
\* route answers for a stored row, and createSubscription posts the chat id
\* alone
handleSubscribeCommand(s) ==
    IF s \in DOMAIN subs /\ subs[s].confirmed = 1
    THEN /\ dispatched' = {}
         /\ UNCHANGED <<now, posts, subs, deliveries, passes, retry>>
    ELSE handleCreateSubscription(s, FilterAbsent)

subscribeReply(s) ==
    IF s \in DOMAIN subs /\ subs[s].confirmed = 1
    THEN Reply("subscribe", s, Null, 200, TRUE, "already_subscribed")
    ELSE Reply("subscribe", s, Null, 200, TRUE, "confirmed")

\* findSubscriptionByToken: SELECT ... WHERE confirm_token = ? LIMIT 1
findSubscriptionByToken(token) ==
    LET found == {s \in DOMAIN subs : subs[s].confirm_token = token}
    IN IF found = {} THEN 0 ELSE CHOOSE s \in found : \A t \in found : s <= t

\* the response of handleConfirmSubscription to GET ...confirm?token=
confirmReply(token) ==
    LET s == findSubscriptionByToken(token)
        currentTimestamp == getCurrentTimestamp
    IN IF s = 0 THEN Reply("confirm", 0, token, 404, FALSE, "not_found")
       ELSE IF subs[s].confirmed = 1
            THEN Reply("confirm", s, token, 200, TRUE, "already_confirmed")
       ELSE IF /\ subs[s].confirm_token_expire_ts \notin {Null, 0}
               /\ subs[s].confirm_token_expire_ts < currentTimestamp
            THEN Reply("confirm", s, token, 410, FALSE, "expired")
       ELSE Reply("confirm", s, token, 200, TRUE, "confirmed")

\* handleConfirmSubscription
handleConfirmSubscription(token) ==
    /\ LET r == confirmReply(token)
       IN subs' = IF r.result = "confirmed"
                  THEN [subs EXCEPT ![r.chat].confirmed = 1,
                                    ![r.chat].confirmed_at_ts = getCurrentTimestamp,
                                    ![r.chat].confirm_token = Null,
                                    ![r.chat].confirm_token_expire_ts = Null]
                  ELSE subs
    /\ dispatched' = {}
    /\ UNCHANGED <<now, posts, deliveries, passes, retry>>

ConfirmSubscription(token) == handleConfirmSubscription(token)

\* ------------------------------------------- periodic pass, per article
Snapshot(ids) == [k \in 1..Len(ids) |->
                    [id |-> ids[k], source_username |-> posts[ids[k]].source_username]]

AfterPost(i, rest) ==
    IF rest = <<>> THEN [passes EXCEPT ![i] = IdlePass]
    ELSE [passes EXCEPT ![i] = [pc |-> "pa_post", queue |-> rest, recips |-> <<>>]]

\* executeBroadcast, step 1: query the unpublished posts
PerArticleStart(i) ==
    /\ passes[i].pc = "idle"
    /\ LET unpublishedPosts == getUnpublishedPosts(PostLimit)
       IN passes' = IF unpublishedPosts = <<>> THEN passes
                    ELSE [passes EXCEPT ![i] = [pc |-> "pa_post",
                                                queue |-> Snapshot(unpublishedPosts),
                                                recips |-> <<>>]]
    /\ dispatched' = {}
    /\ UNCHANGED <<now, posts, subs, deliveries, retry>>

\* executeBroadcast, step 3: the eligible subscriptions of the next post
PerArticleSelect(i) ==
    /\ passes[i].pc = "pa_post"
    /\ LET post == Head(passes[i].queue)
           eligibleSubscriptions == getEligibleSubscriptions(post.source_username)
       IN IF eligibleSubscriptions = <<>>
          THEN /\ posts' = markPostAsPublished(posts, post.id)
               /\ passes' = AfterPost(i, Tail(passes[i].queue))
          ELSE /\ posts' = posts
               /\ passes' = [passes EXCEPT ![i].pc = "pa_send",
                               ![i].recips =
                                  [k \in 1..Len(eligibleSubscriptions) |->
                                     [sub |-> eligibleSubscriptions[k],
                                      posts |-> <<post.id>>,
                                      ok |-> IF Eligible(eligibleSubscriptions[k],
                                                         post.source_username)
                                             THEN {post.id} ELSE {},
                                      dead |-> IF HasStatus(post.id,
                                                    eligibleSubscriptions[k],
                                                    "permanently_failed")
                                               THEN {post.id} ELSE {}]]]
    /\ dispatched' = {}
    /\ UNCHANGED <<now, subs, deliveries, retry>>

\* A send step whose thrown fault ends the invocation, which the catch of
\* the recipient loop prevents.
PerArticleSend_FaultEndsPass(i, answer, d) ==
    /\ passes[i].pc = "pa_send"
    /\  LET post == Head(passes[i].queue)
            r == Head(passes[i].recips)
            newDeliveries == recordDelivery(deliveries, post.id, r.sub, answer = "ok")
        IN /\ dispatched' = {Event(post.id, r.sub, "pass", answer, d,
                                  post.id \in r.ok, post.id \in r.dead)}
           /\ deliveries' = newDeliveries
           /\ passes' = IF answer = "network"
                        THEN [passes EXCEPT ![i] = IdlePass]
                        ELSE IF Tail(passes[i].recips) = <<>>
                        THEN [passes EXCEPT ![i].pc = "pa_resolve", ![i].recips = <<>>]
                        ELSE [passes EXCEPT ![i].recips = Tail(passes[i].recips)]
    /\ UNCHANGED <<now, posts, subs, retry>>

\* executeBroadcast, step 4: sendNewsMessage to one subscription, then
\* recordDelivery with the result
PerArticleSend(i, answer, d) ==
    /\ passes[i].pc = "pa_send"
    /\  LET post == Head(passes[i].queue)
            r == Head(passes[i].recips)
            newDeliveries == recordDelivery(deliveries, post.id, r.sub, answer = "ok")
        IN /\ dispatched' = {Event(post.id, r.sub, "pass", answer, d,
                                  post.id \in r.ok, post.id \in r.dead)}
           /\ deliveries' = newDeliveries
           /\ passes' = IF Tail(passes[i].recips) = <<>>
                        THEN [passes EXCEPT ![i].pc = "pa_resolve", ![i].recips = <<>>]
                        ELSE [passes EXCEPT ![i].recips = Tail(passes[i].recips)]
    /\ UNCHANGED <<now, posts, subs, retry>>

\* executeBroadcast, step 5: isPostFullyPublished, then markPostAsPublished
PerArticleResolve(i) ==
    /\ passes[i].pc = "pa_resolve"
    /\ LET post == Head(passes[i].queue)
       IN /\ posts' = IF isPostFullyPublished(post.id)
                      THEN markPostAsPublished(posts, post.id) ELSE posts
          /\ passes' = AfterPost(i, Tail(passes[i].queue))
    /\ dispatched' = {}
    /\ UNCHANGED <<now, subs, deliveries, retry>>

\* --------------------------------------------- periodic pass, batched
RECURSIVE Ids(_)
Ids(q) == IF q = <<>> THEN <<>> ELSE <<Head(q).id>> \o Ids(Tail(q))

EligiblePosts(q, filter) ==
    Ids(SelectSeq(q, LAMBDA post : filterPostsForSubscription(filter, post.source_username)))

\* executeBroadcast, steps 1 and 2: the unpublished posts and the active
\* subscriptions; what filterPostsForSubscription returns for each of them
\* is a function of these two results
BatchStart(i) ==
    /\ passes[i].pc = "idle"
    /\ LET unpublishedPosts == Snapshot(getUnpublishedPosts(PostLimit))
           allActiveSubscriptions == getAllActiveSubscriptions
       IN passes' =
            IF unpublishedPosts = <<>> \/ allActiveSubscriptions = <<>> THEN passes
            ELSE [passes EXCEPT ![i] =
                    [pc |-> "b_send", queue |-> unpublishedPosts,
                     recips |-> [k \in 1..Len(allActiveSubscriptions) |->
                        LET s == allActiveSubscriptions[k]
                        IN [sub |-> s,
                            posts |-> EligiblePosts(unpublishedPosts, subs[s].filters_json),
                            ok |-> {unpublishedPosts[j].id : j \in
                                     {j \in 1..Len(unpublishedPosts) :
                                        Eligible(s, unpublishedPosts[j].source_username)}},
                            dead |-> {unpublishedPosts[j].id : j \in
                                       {j \in 1..Len(unpublishedPosts) :
                                          HasStatus(unpublishedPosts[j].id, s,
                                                    "permanently_failed")}}]]]]
    /\ dispatched' = {}
    /\ UNCHANGED <<now, posts, subs, deliveries, retry>>

Range(s) == {s[k] : k \in 1..Len(s)}

\* executeBroadcast, step 3: one sendBatchNewsMessage per subscription, then
\* one recordDelivery per post of the message
BatchSend(i, answer, d) ==
    /\ passes[i].pc = "b_send"
    /\ LET r == Head(passes[i].recips)
           next == IF Tail(passes[i].recips) = <<>>
                   THEN [passes EXCEPT ![i].pc = "b_resolve", ![i].recips = <<>>]
                   ELSE [passes EXCEPT ![i].recips = Tail(passes[i].recips)]
       IN IF r.posts = <<>>
          THEN /\ dispatched' = {}
               /\ passes' = next
               /\ deliveries' = deliveries
          ELSE   LET newDeliveries == recordAll(deliveries, r.posts, r.sub, answer = "ok")
                 IN /\ dispatched' = {Event(p, r.sub, "batch", answer, d, p \in r.ok, p \in r.dead) :
                                         p \in Range(r.posts)}
                    /\ deliveries' = newDeliveries
                    /\ passes' = next
    /\ UNCHANGED <<now, posts, subs, retry>>

\* executeBroadcast, step 4: isPostFullyPublished for each selected post
BatchResolve(i) ==
    /\ passes[i].pc = "b_resolve"
    /\ LET post == Head(passes[i].queue)
       IN /\ posts' = IF isPostFullyPublished(post.id)
                      THEN markPostAsPublished(posts, post.id) ELSE posts
          /\ passes' = IF Tail(passes[i].queue) = <<>>
                       THEN [passes EXCEPT ![i] = IdlePass]
                       ELSE [passes EXCEPT ![i].queue = Tail(passes[i].queue)]
    /\ dispatched' = {}
    /\ UNCHANGED <<now, subs, deliveries, retry>>

\* the host ends an invocation that runs past its execution-time ceiling
Abort(i) ==
    /\ passes[i].pc # "idle"
    /\ passes' = [passes EXCEPT ![i] = IdlePass]
    /\ dispatched' = {}
    /\ UNCHANGED <<now, posts, subs, deliveries, retry>>

\* CronHandler.validateBroadcastSystem: the bot token answers getMe, the
\* store answers SELECT 1, and the two environment variables are set
validateBroadcastSystem(tokenValid, dbUp, envSet) == tokenValid /\ dbUp /\ envSet

\* how an invocation of scheduled ends: skipped after a failed validation,
\* thrown when a first query of executeBroadcast is rejected, else completed
scheduledOutcome(tokenValid, dbUp, envSet, queryFails) ==
    IF ~validateBroadcastSystem(tokenValid, dbUp, envSet) THEN "skipped"
    ELSE IF queryFails THEN "thrown"
    ELSE "completed"

scheduledReply(i, tokenValid, dbUp, envSet, queryFails) ==
    Reply("scheduled", i, Null, 0, validateBroadcastSystem(tokenValid, dbUp, envSet),
          scheduledOutcome(tokenValid, dbUp, envSet, queryFails))

\* An invocation that runs the pass without the validation.
scheduled_NoValidation(i, tokenValid, dbUp, envSet, queryFails) ==
    /\ passes[i].pc = "idle"
    /\ IF queryFails
       THEN /\ dispatched' = {}
            /\ UNCHANGED <<now, posts, subs, deliveries, passes, retry>>
       ELSE PerArticleStart(i) \/ BatchStart(i)

\* scheduled: the validation, then executeBroadcast up to its first queries;
\* getUnpublishedPosts and getAllActiveSubscriptions rethrow a rejected
\* query, executeBroadcast and scheduled rethrow it again
scheduled(i, tokenValid, dbUp, envSet, queryFails) ==
    /\ passes[i].pc = "idle"
    /\ IF scheduledOutcome(tokenValid, dbUp, envSet, queryFails) # "completed"
       THEN /\ dispatched' = {}
            /\ UNCHANGED <<now, posts, subs, deliveries, passes, retry>>
       ELSE PerArticleStart(i) \/ BatchStart(i)

\* ------------------------------------------------ errors and decisions
\* a caught value: the properties the analysis reads; 0 and "" stand for
\* an absent property
Err(error_code, description, status, code, message, retry_after) ==
    [error_code |-> error_code, description |-> description, status |-> status,
     code |-> code, message |-> message, retry_after |-> retry_after,
     instance |-> FALSE]

\* an Error instance: message and stack are own, non-enumerable properties
ErrorInstance(message) ==
    [error_code |-> 0, description |-> "", status |-> 0, code |-> "",
     message |-> message, retry_after |-> 0, instance |-> TRUE]

\* what TelegramApiService.sendMessage throws: the rejection of fetch or of
\* response.json(); an answer of the API with ok = false is returned
sendMessageThrows == {ErrorInstance("fetch failed"), ErrorInstance("Network connection lost")}

\* withRetry rethrows {...lastError, retryInfo}: the spread copies the
\* enumerable own properties, which an Error instance does not have
Rethrown(e) == IF e.instance THEN Err(0, "", 0, "", "", 0) ELSE e

\* ErrorAnalyzer.analyzeTelegramError
analyzeTelegramError(e) ==
    CASE e.error_code = 400 ->
            [type |-> IF e.description = "chat not found" THEN "CHAT_NOT_FOUND"
                      ELSE "TELEGRAM_API_ERROR", retryable |-> FALSE]
      [] e.error_code = 403 ->
            [type |-> IF e.description = "blocked by the user" THEN "USER_BLOCKED_BOT"
                      ELSE "TELEGRAM_API_ERROR", retryable |-> FALSE]
      [] e.error_code = 429 -> [type |-> "RATE_LIMIT_ERROR", retryable |-> TRUE]
      [] e.error_code \in {500, 502, 503} -> [type |-> "TELEGRAM_API_ERROR", retryable |-> TRUE]
      [] OTHER -> [type |-> "TELEGRAM_API_ERROR", retryable |-> e.error_code >= 500]

\* ErrorAnalyzer.analyzeError
analyzeError(e) ==
    IF e.error_code # 0 \/ e.description # "" THEN analyzeTelegramError(e)
    ELSE IF e.status # 0 THEN [type |-> "EXTERNAL_SERVICE_ERROR", retryable |-> e.status >= 500]
    ELSE IF e.code = "NETWORK_ERROR" \/ e.message = "fetch failed"
         THEN [type |-> "NETWORK_ERROR", retryable |-> TRUE]
    ELSE IF e.message = "D1_ERROR" THEN [type |-> "DATABASE_ERROR", retryable |-> TRUE]
    ELSE [type |-> "INTERNAL_ERROR", retryable |-> FALSE]

Stop == [strategy |-> "STOP", delay |-> 0, final |-> TRUE]
Delayed(d) == [strategy |-> "DELAYED", delay |-> d, final |-> FALSE]

\* RetryDecisionEngine.decide
decide(retryCount, e) ==
    IF retryCount >= MaxRetries THEN Stop
    ELSE LET standardError == analyzeError(e)
         IN CASE standardError.type = "NETWORK_ERROR" ->
                    [strategy |-> "IMMEDIATE", delay |-> 0, final |-> FALSE]
              [] standardError.type = "RATE_LIMIT_ERROR" ->
                    Delayed((IF e.retry_after # 0 THEN e.retry_after ELSE 60) * 1000)
              [] standardError.type \in {"USER_BLOCKED_BOT", "CHAT_NOT_FOUND"} ->
                    [strategy |-> "DISABLE_SUBSCRIPTION", delay |-> 0, final |-> TRUE]
              [] standardError.type = "TELEGRAM_API_ERROR" ->
                    IF e.error_code >= 400 /\ e.error_code < 500 THEN Stop
                    ELSE IF e.error_code >= 500 THEN Delayed(RetryInterval)
                    ELSE Stop
              [] standardError.type = "DATABASE_ERROR" -> Delayed(RetryInterval)
              [] OTHER -> IF standardError.retryable THEN Delayed(RetryInterval) ELSE Stop

\* withTelegramRetry, shouldRetry
shouldRetryTelegram(e) ==
    LET errorCode == IF e.error_code # 0 THEN e.error_code ELSE e.status
    IN IF errorCode = 429 THEN ~(e.retry_after # 0 /\ e.retry_after > 60)
       ELSE IF errorCode >= 500 THEN TRUE
       ELSE e.code \in {"NETWORK_ERROR", "TIMEOUT"}

\* ------------------------------------------- failed-delivery retry round
Key(d) == <<d.post_id, d.subscription_id>>

\* A query without the status condition: rows of any status come back to
\* the retry round.
getFailedDeliveries_AnyStatus ==
    LET cutoff == now - RetryInterval
        rows == {d \in deliveries :
                    /\ d.retry_count < MaxRetries
                    /\ (d.last_retry_ts = Null \/ d.last_retry_ts < cutoff)}
        RECURSIVE Order(_)
        Order(S) == IF S = {} THEN <<>>
                    ELSE LET m == CHOOSE x \in S : \A y \in S :
                                    \/ Key(x)[1] < Key(y)[1]
                                    \/ Key(x)[1] = Key(y)[1] /\ Key(x)[2] <= Key(y)[2]
                         IN <<m>> \o Order(S \ {m})
    IN Order(rows)

\* FailedDeliveryRetryManager.getFailedDeliveries
getFailedDeliveries ==
    LET cutoff == now - RetryInterval
        rows == {d \in deliveries :
                    /\ d.status = "failed"
                    /\ d.retry_count < MaxRetries
                    /\ (d.last_retry_ts = Null \/ d.last_retry_ts < cutoff)}
        RECURSIVE Order(_)
        Order(S) == IF S = {} THEN <<>>
                    ELSE LET m == CHOOSE x \in S : \A y \in S :
                                    \/ Key(x)[1] < Key(y)[1]
                                    \/ Key(x)[1] = Key(y)[1] /\ Key(x)[2] <= Key(y)[2]
                         IN <<m>> \o Order(S \ {m})
    IN Order(rows)

\* FailedDeliveryRetryManager.updateDeliverySuccess: UPDATE ... WHERE id = ?
updateDeliverySuccess(ds, id) ==
    {IF d.id = id THEN [d EXCEPT !.status = "sent"] ELSE d : d \in ds}

\* FailedDeliveryRetryManager.disableSubscription: the statement sets the
\* status column; enabled and confirmed are not written
disableSubscription(ss, s) ==
    IF s \in DOMAIN ss THEN [ss EXCEPT ![s].status = "disabled"] ELSE ss

\* FailedDeliveryRetryManager.handleRetryDecision, the deliveries it leaves
handleRetryDecision(ds, id, decision) ==
    LET updated(d) ==
            CASE decision.strategy = "STOP" ->
                    [d EXCEPT !.status = "permanently_failed"]
              [] decision.strategy = "DISABLE_SUBSCRIPTION" ->
                    [d EXCEPT !.status = "subscription_disabled"]
              [] OTHER ->
                    [d EXCEPT !.retry_count = d.retry_count + 1, !.last_retry_ts = now]
    IN {IF d.id = id THEN updated(d) ELSE d : d \in ds}

\* processFailedDeliveries: the query
RetryStart ==
    /\ retry.pc = "idle"
    /\ LET failedDeliveries == getFailedDeliveries
       IN retry' = IF failedDeliveries = <<>> THEN retry
                   ELSE [pc |-> "retry",
                         queue |-> [k \in 1..Len(failedDeliveries) |->
                            LET d == failedDeliveries[k]
                            IN [id |-> d.id, post_id |-> d.post_id,
                                subscription_id |-> d.subscription_id,
                                retry_count |-> d.retry_count,
                                ok |-> Eligible(d.subscription_id,
                                                posts[d.post_id].source_username)]]]
    /\ dispatched' = {}
    /\ UNCHANGED <<now, posts, subs, deliveries, passes>>

\* processFailedDeliveries: retryDelivery for the next row of the result
RetryStep(first, second, d, thrown1, thrown2) ==
    /\ retry.pc = "retry"
    /\  LET delivery == Head(retry.queue)
            key == Key(delivery)
            \* withRetry with maxRetries = 1: a second call only after a
            \* thrown error that shouldRetry accepts
            again == first = "network" /\ shouldRetryTelegram(thrown1)
            answer == IF again THEN second ELSE first
            error == Rethrown(IF again THEN thrown2 ELSE thrown1)
            decision == decide(delivery.retry_count, error)
            newDeliveries ==
                IF answer # "network" THEN updateDeliverySuccess(deliveries, delivery.id)
                ELSE handleRetryDecision(deliveries, delivery.id, decision)
        IN /\ (~again => second = first /\ thrown2 = thrown1)
           /\ dispatched' = {Event(key[1], key[2], "retry", a, d, delivery.ok, FALSE) :
                                a \in {first, answer}}
           /\ deliveries' = newDeliveries
           /\ subs' = IF answer = "network" /\ decision.strategy = "DISABLE_SUBSCRIPTION"
                      THEN disableSubscription(subs, key[2]) ELSE subs
           /\ retry' = IF Tail(retry.queue) = <<>> THEN IdleRetry
                       ELSE [retry EXCEPT !.queue = Tail(retry.queue)]
    /\ UNCHANGED <<now, posts, passes>>

\* ------------------------------------------------------- admin push
\* AdminPushService.getPostsToPush
getPostsToPush(postId, force) ==
    IF postId # 0 THEN (IF postId \in DOMAIN posts THEN <<postId>> ELSE <<>>)
    ELSE IF force THEN SetToSeq(DOMAIN posts)
    ELSE SetToSeq({p \in DOMAIN posts : posts[p].published = 0})

\* AdminPushService.getTargetUsers
getTargetUsers(chatIds) ==
    IF chatIds # {} THEN {s \in DOMAIN subs : s \in chatIds /\ subs[s].status = "active"}
    ELSE {s \in DOMAIN subs : subs[s].status = "active"}

\* AdminPushService.createDeliveryRecord: the INSERT names no
\* subscription_id, which 0001_init.sql declares NOT NULL; the statement
\* fails and the error is logged
createDeliveryRecord(ds, p, s, status) == ds

\* AdminPushService.executePush for the posts ps: answers gives the answer
\* of the gateway to each call
RECURSIVE executePush(_, _, _, _)
executePush(ps, todo, users, answers) ==
    IF todo = <<>> THEN ps
    ELSE LET p == Head(todo)
             failureCount == Cardinality({u \in users : answers[p, u] = "network"})
             successCount == Cardinality({u \in users : answers[p, u] # "network"})
         IN executePush(IF failureCount = 0 /\ successCount > 0
                        THEN markPostAsPublished(ps, p) ELSE ps,
                        Tail(todo), users, answers)

\* AdminPushService.handlePushRequest
AdminPush(postId, chatIds, dryRun, force, answers) ==
        LET todo == getPostsToPush(postId, force)
            targetUsers == getTargetUsers(chatIds)
            live == todo # <<>> /\ targetUsers # {} /\ ~dryRun
        IN /\ \A p \in Posts, u \in Subs :
                (~live \/ p \notin Range(todo) \/ u \notin targetUsers) => answers[p, u] = "ok"
           /\ dispatched' = IF live
                            THEN {Event(p, u, "admin", answers[p, u], 0,
                                        Eligible(u, posts[p].source_username),
                                        HasStatus(p, u, "permanently_failed")) :
                                    p \in Range(todo), u \in targetUsers}
                            ELSE {}
           /\ posts' = IF live THEN executePush(posts, todo, targetUsers, answers) ELSE posts
           /\ deliveries' = IF live
                            THEN createDeliveryRecord(deliveries, postId, 0, "sent")
                            ELSE deliveries
           /\ UNCHANGED <<now, subs, passes, retry>>

\* how a request asks for the dry run: not at all, by the dryRun property of
\* the JSON body, or by dry_run (property of the body or query parameter)
DryRunForms == {"none", "dryRun", "dry_run"}

\* handleAdminPush: c.req.json() is taken as a ManualPushRequest and only
\* its dryRun property is read; any other property is ignored and passes
\* validatePushRequest
handleAdminPush(postId, chatIds, form, force, answers) ==
    AdminPush(postId, chatIds, form = "dryRun", force, answers)

pushReply(form) == Reply("push", 0, Null, 200, TRUE, form)

\* ------------------------------------------------------ withRetry, steps
\* withRetry: the options are merged and the loop starts with attempt 1
withRetryStart(options) ==
    /\ run.pc \in {"idle", "returned", "thrown"}
    /\ run' = [pc |-> IF 1 <= options.maxRetries + 1 THEN "call" ELSE "thrown",
               opts |-> options, attempt |-> 1, calls |-> 0,
               lastError |-> NoError, delayTime |-> 0]
    /\ dispatched' = {}
    /\ UNCHANGED <<now, posts, subs, deliveries, passes, retry>>

\* withRetry, one turn of the loop: fn is invoked; it returns, or it throws
\* and the catch breaks or computes the delay
withRetryCall(ok, error, random) ==
    /\ run.pc = "call"
    /\ run' = IF ok
              THEN [run EXCEPT !.pc = "returned", !.calls = run.calls + 1]
              ELSE IF run.attempt > run.opts.maxRetries \/ ~shouldRetry(error)
              THEN [run EXCEPT !.pc = "thrown", !.calls = run.calls + 1,
                               !.lastError = error]
              ELSE [run EXCEPT !.pc = "wait", !.calls = run.calls + 1,
                               !.lastError = error,
                               !.delayTime = calculateDelay(run.attempt, run.opts, random)]
    /\ dispatched' = {}
    /\ UNCHANGED <<now, posts, subs, deliveries, passes, retry>>

\* withRetry: delay(delayTime) resolves and the loop goes on
withRetryWake ==
    /\ run.pc = "wait"
    /\ run' = [run EXCEPT !.attempt = run.attempt + 1,
                          !.pc = IF run.attempt + 1 <= run.opts.maxRetries + 1
                                 THEN "call" ELSE "thrown"]
    /\ dispatched' = {}
    /\ UNCHANGED <<now, posts, subs, deliveries, passes, retry>>

\* ------------------------------------------------------------ observers

ObserveSent == sentCount' = CountSent(deliveries, deliveries', sentCount)

ObserveRL ==
    rl' = IF \E e \in dispatched' : e.answer = "rate_limited"
          THEN LET e == CHOOSE x \in dispatched' : x.answer = "rate_limited"
               IN [post |-> e.post, sub |-> e.sub, until |-> now + e.retry_after * 1000]
          ELSE rl

ObserveAttempts ==
    attempts' = [pr \in Posts \X Subs |->
        Min(MaxRetries + 1,
            attempts[pr] + Cardinality({e \in dispatched' :
                              /\ e.post = pr[1] /\ e.sub = pr[2]
                              /\ e.answer # "ok" /\ ~e.hadSent}))]

\* ------------------------------------------------ rate limiter, steps
\* RateLimiterManager.getChatLimiter: the bucket of the chat, created full
\* at the first call for the chat
getChatLimiter(m, chatId, t) ==
    IF chatId \in DOMAIN m.chatLimiters THEN m.chatLimiters[chatId]
    ELSE RateLimiter(ChatCapacity, t)

\* the grants of the rolling second that ends at time t
LastSecond(g, t) == SelectSeq(g, LAMBDA x : x.at > t - 1000)

\* the clock advances while the caller sleeps or between two calls
LimiterTick ==
    /\ now < MaxSeconds * 1000
    /\ now' = now + LimiterStepMs
    /\ limiter' = [limiter EXCEPT !.granted = LastSecond(@, now')]
    /\ dispatched' = {}
    /\ UNCHANGED <<posts, subs, deliveries, passes, retry>>

\* RateLimiterManager.waitForSend(chatId) is called
waitForSend(chatId) ==
    /\ limiter.call.pc = "idle"
    /\ limiter' = [limiter EXCEPT !.call = [pc |-> "global", chatId |-> chatId, wake |-> now]]
    /\ dispatched' = {}
    /\ UNCHANGED <<now, posts, subs, deliveries, passes, retry>>

\* waitForSend: globalLimiter.waitForTokens(1), one turn of its loop
WaitGlobal ==
    /\ limiter.call.pc = "global"
    /\ now >= limiter.call.wake
    /\ LET c == consume(limiter.manager.globalLimiter, GlobalCapacity, GlobalRate, now)
       IN limiter' = [limiter EXCEPT
                        !.manager.globalLimiter = c.bucket,
                        !.call = IF c.ok THEN [@ EXCEPT !.pc = "chat", !.wake = now]
                                 ELSE [@ EXCEPT !.wake = now + sleepTime(c.bucket, GlobalRate)],
                        !.taken = IF c.ok THEN Append(@, [at |-> now, bucket |-> 0])
                                  ELSE @]
    /\ dispatched' = {}
    /\ UNCHANGED <<now, posts, subs, deliveries, passes, retry>>

\* waitForSend: chatLimiter.waitForTokens(1), one turn of its loop; when the
\* token is taken waitForSend returns and the caller may send
WaitChat ==
    /\ limiter.call.pc = "chat"
    /\ now >= limiter.call.wake
    /\ LET chatId == limiter.call.chatId
           m == limiter.manager
           c == consume(getChatLimiter(m, chatId, now), ChatCapacity, ChatRate, now)
           chats == [k \in DOMAIN m.chatLimiters \cup {chatId} |->
                        IF k = chatId THEN c.bucket ELSE m.chatLimiters[k]]
       IN limiter' = [manager |-> [m EXCEPT !.chatLimiters = chats,
                                            !.order = IF chatId \in DOMAIN m.chatLimiters
                                                      THEN @ ELSE Append(@, chatId)],
                      call |-> IF c.ok THEN IdleCall
                               ELSE [limiter.call EXCEPT
                                        !.wake = now + sleepTime(c.bucket, ChatRate)],
                      granted |-> IF c.ok
                                  THEN Append(limiter.granted, [at |-> now, chatId |-> chatId])
                                  ELSE limiter.granted,
                      taken |-> IF c.ok
                                THEN Append(limiter.taken, [at |-> now, bucket |-> chatId])
                                ELSE limiter.taken]
    /\ dispatched' = {}
    /\ UNCHANGED <<now, posts, subs, deliveries, passes, retry>>

\* RateLimiterManager.cleanupInactiveLimiters: with more than 1000 entries
\* the Map is cleared and its last 500 entries, in insertion order, are set
\* again
cleanupInactiveLimiters ==
    /\ limiter.call.pc = "idle"
    /\ LET m == limiter.manager
           toKeep == IF Len(m.order) > CleanupThreshold
                     THEN SubSeq(m.order, Len(m.order) - CleanupKeep + 1, Len(m.order))
                     ELSE m.order
       IN limiter' = [limiter EXCEPT
                        !.manager.order = toKeep,
                        !.manager.chatLimiters =
                            [k \in {toKeep[j] : j \in 1..Len(toKeep)} |-> m.chatLimiters[k]]]
    /\ dispatched' = {}
    /\ UNCHANGED <<now, posts, subs, deliveries, passes, retry>>

\* ------------------------------------------------------- specifications
Quiet == UNCHANGED <<sentCount, rl, attempts, limiter, reply, run>>
ObserveAll == ObserveSent /\ ObserveRL /\ ObserveAttempts /\ UNCHANGED <<limiter, reply, run>>
OnePass == {1}

\* the periodic pass, one invocation at a time, between the requests
NextPass ==
    \/ \E p \in Posts, source \in Sources, date \in {0} : Ingest(p, source, date) /\ Quiet
    \/ \E s \in Subs, filter \in FilterInputs : CreateSubscription(s, filter) /\ Quiet
    \/ \E s \in Subs : DeleteSubscription(s) /\ Quiet
    \/ \E i \in OnePass : PerArticleStart(i) /\ Quiet
    \/ \E i \in OnePass : PerArticleSelect(i) /\ Quiet
    \/ \E i \in OnePass, answer \in Answers, d \in Delays : PerArticleSend(i, answer, d) /\ Quiet
    \/ \E i \in OnePass : PerArticleResolve(i) /\ Quiet
    \/ \E i \in OnePass : BatchStart(i) /\ Quiet
    \/ \E i \in OnePass, answer \in Answers, d \in Delays : BatchSend(i, answer, d) /\ Quiet
    \/ \E i \in OnePass : BatchResolve(i) /\ Quiet
    \/ \E i \in OnePass : Abort(i) /\ Quiet

SpecPass == Init /\ [][NextPass]_vars

\* the delivery ledger under two overlapping passes, the retry round and the
\* admin push, over one stored article and the stored subscriptions
InitLedger ==
    /\ now = 0
    /\ posts = [p \in {1} |-> [source_username |-> "src1", post_date_ts |-> 0,
                                 published |-> 0]]
    /\ subs = [s \in Subs |-> ConfirmedRow(FilterAbsent, 0)]
    /\ deliveries = {}
    /\ passes = [i \in PassIds |-> IdlePass]
    /\ retry = IdleRetry
    /\ dispatched = {}
    /\ sentCount = [pr \in Posts \X Subs |-> 0]
    /\ rl = NoRL
    /\ attempts = [pr \in Posts \X Subs |-> 0]
    /\ limiter = NewLimiter
    /\ run = IdleRun
    /\ reply = NoReply

\* the gateway gives no answer to the calls for the chats of U
NoAnswerFor(U) == [pr \in Posts \X Subs |-> IF pr[2] \in U THEN "network" ELSE "ok"]

\* the call is answered, or is not
Outcomes == {"ok", "network"}

ObserveLedger == ObserveSent /\ UNCHANGED <<rl, attempts, limiter, reply, run>>

NextLedger ==
    \/ \E i \in PassIds : PerArticleStart(i) /\ ObserveLedger
    \/ \E i \in PassIds : PerArticleSelect(i) /\ ObserveLedger
    \/ \E i \in PassIds, answer \in Outcomes, d \in Delays : PerArticleSend(i, answer, d) /\ ObserveLedger
    \/ \E i \in PassIds : PerArticleResolve(i) /\ ObserveLedger
    \/ \E i \in PassIds : BatchStart(i) /\ ObserveLedger
    \/ \E i \in PassIds, answer \in Outcomes, d \in Delays : BatchSend(i, answer, d) /\ ObserveLedger
    \/ \E i \in PassIds : BatchResolve(i) /\ ObserveLedger
    \/ \E i \in PassIds : Abort(i) /\ ObserveLedger
    \/ RetryStart /\ ObserveLedger
    \/ \E first \in Outcomes, second \in Outcomes, d \in Delays,
          thrown1 \in sendMessageThrows, thrown2 \in sendMessageThrows :
            RetryStep(first, second, d, thrown1, thrown2) /\ ObserveLedger
    \/ \E dryRun \in BOOLEAN, unreachable \in SUBSET Subs :
            AdminPush(0, {}, dryRun, FALSE, NoAnswerFor(unreachable)) /\ ObserveLedger

SpecLedger == InitLedger /\ [][NextLedger]_vars

\* the periodic pass and the retry round between the requests
NextRound ==
    \/ \E p \in Posts : Ingest(p, "src1", 0) /\ Quiet
    \/ \E s \in Subs, filter \in {FilterAbsent, FilterList({"src2"})} :
            CreateSubscription(s, filter) /\ Quiet
    \/ \E s \in Subs : DeleteSubscription(s) /\ Quiet
    \/ \E i \in OnePass : PerArticleStart(i) /\ Quiet
    \/ \E i \in OnePass : PerArticleSelect(i) /\ Quiet
    \/ \E i \in OnePass, answer \in Answers, d \in Delays : PerArticleSend(i, answer, d) /\ Quiet
    \/ \E i \in OnePass : PerArticleResolve(i) /\ Quiet
    \/ \E i \in OnePass : BatchStart(i) /\ Quiet
    \/ \E i \in OnePass, answer \in Answers, d \in Delays : BatchSend(i, answer, d) /\ Quiet
    \/ \E i \in OnePass : BatchResolve(i) /\ Quiet
    \/ \E i \in OnePass : Abort(i) /\ Quiet
    \/ RetryStart /\ Quiet
    \/ \E first \in Answers, second \in Answers, d \in Delays,
          thrown1 \in sendMessageThrows, thrown2 \in sendMessageThrows :
            RetryStep(first, second, d, thrown1, thrown2) /\ Quiet

SpecRound == Init /\ [][NextRound]_vars

\* the periodic pass and the retry round as time passes, over one stored
\* article and the stored subscriptions
ObserveBackoff == ObserveRL /\ UNCHANGED <<sentCount, attempts, limiter, reply, run>>

NextBackoff ==
    \/ Tick /\ ObserveBackoff
    \/ \E i \in OnePass : PerArticleStart(i) /\ ObserveBackoff
    \/ \E i \in OnePass : PerArticleSelect(i) /\ ObserveBackoff
    \/ \E i \in OnePass, answer \in Answers, d \in Delays : PerArticleSend(i, answer, d) /\ ObserveBackoff
    \/ \E i \in OnePass : PerArticleResolve(i) /\ ObserveBackoff
    \/ \E i \in OnePass : BatchStart(i) /\ ObserveBackoff
    \/ \E i \in OnePass, answer \in Answers, d \in Delays : BatchSend(i, answer, d) /\ ObserveBackoff
    \/ \E i \in OnePass : BatchResolve(i) /\ ObserveBackoff
    \/ \E i \in OnePass : Abort(i) /\ ObserveBackoff
    \/ RetryStart /\ ObserveBackoff
    \/ \E first \in Answers, second \in Answers, d \in Delays,
          thrown1 \in sendMessageThrows, thrown2 \in sendMessageThrows :
            RetryStep(first, second, d, thrown1, thrown2) /\ ObserveBackoff

SpecBackoff == InitLedger /\ [][NextBackoff]_vars

\* the failed gateway calls of each pair, counted over the passes and the
\* retry rounds
ObserveFailures == ObserveAttempts /\ UNCHANGED <<sentCount, rl, limiter, reply, run>>

NextRetry ==
    \/ \E i \in OnePass : PerArticleStart(i) /\ ObserveFailures
    \/ \E i \in OnePass : PerArticleSelect(i) /\ ObserveFailures
    \/ \E i \in OnePass, answer \in Answers, d \in Delays : PerArticleSend(i, answer, d) /\ ObserveFailures
    \/ \E i \in OnePass : PerArticleResolve(i) /\ ObserveFailures
    \/ \E i \in OnePass : BatchStart(i) /\ ObserveFailures
    \/ \E i \in OnePass, answer \in Answers, d \in Delays : BatchSend(i, answer, d) /\ ObserveFailures
    \/ \E i \in OnePass : BatchResolve(i) /\ ObserveFailures
    \/ \E i \in OnePass : Abort(i) /\ ObserveFailures
    \/ RetryStart /\ ObserveFailures
    \/ \E first \in Answers, second \in Answers, d \in Delays,
          thrown1 \in sendMessageThrows, thrown2 \in sendMessageThrows :
            RetryStep(first, second, d, thrown1, thrown2) /\ ObserveFailures

SpecRetry == InitLedger /\ [][NextRetry]_vars

\* a pass over what a finished per-article pass has left: the stored article
\* went to each eligible subscription, the answer was recorded as sent or
\* failed, and step 5 (or step 3, with nobody eligible) set the flag
InitAfterPass ==
    /\ now = 0
    /\ \E filters \in [Subs -> {FilterAbsent, FilterList({"src2"})}] :
          subs = [s \in Subs |-> ConfirmedRow(filters[s], 0)]
    /\ LET eligibleSubscriptions == getEligibleSubscriptions("src1")
       IN \E success \in [1..Len(eligibleSubscriptions) -> BOOLEAN] :
            deliveries = {[id |-> k, post_id |-> 1,
                           subscription_id |-> eligibleSubscriptions[k],
                           status |-> IF success[k] THEN "sent" ELSE "failed",
                           retry_count |-> 0, last_retry_ts |-> Null] :
                            k \in 1..Len(eligibleSubscriptions)}
    /\ posts = [p \in {1} |->
                 [source_username |-> "src1", post_date_ts |-> 0,
                  published |-> IF getEligibleSubscriptions("src1") = <<>>
                                   \/ isPostFullyPublished(1)
                                THEN 1 ELSE 0]]
    /\ passes = [i \in PassIds |-> IdlePass]
    /\ retry = IdleRetry
    /\ dispatched = {}
    /\ sentCount = [pr \in Posts \X Subs |-> 0]
    /\ rl = NoRL
    /\ attempts = [pr \in Posts \X Subs |-> 0]
    /\ limiter = NewLimiter
    /\ run = IdleRun
    /\ reply = NoReply

NextRerun ==
    \/ \E i \in OnePass : PerArticleStart(i) /\ Quiet
    \/ \E i \in OnePass : PerArticleSelect(i) /\ Quiet
    \/ \E i \in OnePass, answer \in Answers, d \in Delays : PerArticleSend(i, answer, d) /\ Quiet
    \/ \E i \in OnePass : PerArticleResolve(i) /\ Quiet
    \/ \E i \in OnePass : BatchStart(i) /\ Quiet
    \/ \E i \in OnePass, answer \in Answers, d \in Delays : BatchSend(i, answer, d) /\ Quiet
    \/ \E i \in OnePass : BatchResolve(i) /\ Quiet

SpecRerun == InitAfterPass /\ [][NextRerun]_vars

\* the subscription requests over stored rows that wait for confirmation.
\* No statement of the handlers writes a confirm_token: a row that holds one
\* is content of the subscriptions table, as its columns allow
InitConfirm ==
    /\ now = 0
    /\ posts = <<>>
    /\ \E stored \in SUBSET Subs : subs = [s \in stored |-> PendingRow(s, TokenExpireTs)]
    /\ deliveries = {}
    /\ passes = [i \in PassIds |-> IdlePass]
    /\ retry = IdleRetry
    /\ dispatched = {}
    /\ sentCount = [pr \in Posts \X Subs |-> 0]
    /\ rl = NoRL
    /\ attempts = [pr \in Posts \X Subs |-> 0]
    /\ limiter = NewLimiter
    /\ run = IdleRun
    /\ reply = NoReply

Answer(r) == reply' = r /\ UNCHANGED <<sentCount, rl, attempts, limiter, run>>

NextConfirm ==
    \/ Tick /\ Answer(NoReply)
    \/ \E s \in Subs, filter \in {FilterAbsent, FilterList({"src2"})} :
            CreateSubscription(s, filter) /\ Answer(createReply(s))
    \/ \E s \in Subs : handleSubscribeCommand(s) /\ Answer(subscribeReply(s))
    \/ \E s \in Subs : DeleteSubscription(s) /\ Answer(deleteReply(s))
    \/ \E token \in Tokens : ConfirmSubscription(token) /\ Answer(confirmReply(token))

SpecConfirm == InitConfirm /\ [][NextConfirm]_vars

\* The subscription transitions alone, the retry engine's
\* DISABLE_SUBSCRIPTION branch included, whatever delivery leads to it.
RetryDisable(s) ==
    /\ subs' = disableSubscription(subs, s)
    /\ UNCHANGED <<now, posts, deliveries, passes, retry, dispatched>>

NextRows ==
    \/ \E s \in Subs : \E filter \in {FilterAbsent, FilterList({"src2"})} :
          CreateSubscription(s, filter) /\ Answer(createReply(s))
    \/ \E s \in Subs : handleSubscribeCommand(s) /\ Answer(subscribeReply(s))
    \/ \E s \in Subs : DeleteSubscription(s) /\ Answer(deleteReply(s))
    \/ \E token \in Tokens : ConfirmSubscription(token) /\ Answer(confirmReply(token))
    \/ \E s \in Subs : RetryDisable(s) /\ Answer(NoReply)

SpecRows == InitConfirm /\ [][NextRows]_vars

\* the per-article pass between the requests over a stored article and the
\* stored subscriptions, with the result of each ingestion of a stored url
NextIngest ==
    \/ \E p \in DOMAIN posts, source \in Sources :
          Ingest(p, source, 0) /\ Answer(ingestReply(p))
    \/ \E s \in Subs : CreateSubscription(s, FilterAbsent) /\ Answer(NoReply)
    \/ \E s \in Subs : DeleteSubscription(s) /\ Answer(NoReply)
    \/ \E i \in OnePass : PerArticleStart(i) /\ Answer(NoReply)
    \/ \E i \in OnePass : PerArticleSelect(i) /\ Answer(NoReply)
    \/ \E i \in OnePass, answer \in Outcomes, d \in Delays :
          PerArticleSend(i, answer, d) /\ Answer(NoReply)
    \/ \E i \in OnePass : PerArticleResolve(i) /\ Answer(NoReply)

SpecIngest == InitLedger /\ [][NextIngest]_vars

\* two stored articles and the stored subscriptions, before any pass
InitFault ==
    /\ now = 0
    /\ posts = [p \in {1, 2} |-> [source_username |-> "src1", post_date_ts |-> 0,
                                    published |-> 0]]
    /\ subs = [s \in Subs |-> ConfirmedRow(FilterAbsent, 0)]
    /\ deliveries = {}
    /\ passes = [i \in PassIds |-> IdlePass]
    /\ retry = IdleRetry
    /\ dispatched = {}
    /\ sentCount = [pr \in Posts \X Subs |-> 0]
    /\ rl = NoRL
    /\ attempts = [pr \in Posts \X Subs |-> 0]
    /\ limiter = NewLimiter
    /\ run = IdleRun
    /\ reply = NoReply

\* the invocations of the pass alone, one at a time, with every answer and
\* fault of the gateway
NextFault ==
    \/ \E i \in OnePass : PerArticleStart(i) /\ Quiet
    \/ \E i \in OnePass : PerArticleSelect(i) /\ Quiet
    \/ \E i \in OnePass, answer \in Answers, d \in Delays : PerArticleSend(i, answer, d) /\ Quiet
    \/ \E i \in OnePass : PerArticleResolve(i) /\ Quiet
    \/ \E i \in OnePass : BatchStart(i) /\ Quiet
    \/ \E i \in OnePass, answer \in Answers, d \in Delays : BatchSend(i, answer, d) /\ Quiet
    \/ \E i \in OnePass : BatchResolve(i) /\ Quiet

SpecFault == InitFault /\ [][NextFault]_vars

\* the periodic invocations, one at a time, over a stored article and the
\* stored subscriptions
NextScheduled ==
    \/ \E i \in OnePass, tokenValid \in BOOLEAN, dbUp \in BOOLEAN, envSet \in BOOLEAN,
          queryFails \in BOOLEAN :
            /\ scheduled(i, tokenValid, dbUp, envSet, queryFails)
            /\ Answer(scheduledReply(i, tokenValid, dbUp, envSet, queryFails))
    \/ \E s \in Subs : DeleteSubscription(s) /\ Answer(NoReply)
    \/ \E i \in OnePass : PerArticleSelect(i) /\ Answer(NoReply)
    \/ \E i \in OnePass, answer \in Answers, d \in Delays :
          PerArticleSend(i, answer, d) /\ Answer(NoReply)
    \/ \E i \in OnePass : PerArticleResolve(i) /\ Answer(NoReply)
    \/ \E i \in OnePass, answer \in Answers, d \in Delays :
          BatchSend(i, answer, d) /\ Answer(NoReply)
    \/ \E i \in OnePass : BatchResolve(i) /\ Answer(NoReply)

SpecScheduled == InitLedger /\ [][NextScheduled]_vars

\* the admin push between the steps of the per-article pass, over a stored
\* article and the stored subscriptions
NextPush ==
    \/ \E form \in DryRunForms, force \in BOOLEAN, unreachable \in SUBSET Subs :
          /\ handleAdminPush(0, {}, form, force, NoAnswerFor(unreachable))
          /\ Answer(pushReply(form))
    \/ \E s \in Subs : DeleteSubscription(s) /\ Answer(NoReply)
    \/ \E i \in OnePass : PerArticleStart(i) /\ Answer(NoReply)
    \/ \E i \in OnePass : PerArticleSelect(i) /\ Answer(NoReply)
    \/ \E i \in OnePass, answer \in Outcomes, d \in Delays :
          PerArticleSend(i, answer, d) /\ Answer(NoReply)
    \/ \E i \in OnePass : PerArticleResolve(i) /\ Answer(NoReply)

SpecPush == InitLedger /\ [][NextPush]_vars

\* withRetry alone, for the options and the outcomes of fn
Still == UNCHANGED <<sentCount, rl, attempts, limiter, reply>>

NextWithRetry ==
    \/ \E options \in RetryOptionInputs : withRetryStart(options) /\ Still
    \/ \E ok \in BOOLEAN, error \in ThrownInputs, random \in RandomInputs :
          withRetryCall(ok, error, random) /\ Still
    \/ withRetryWake /\ Still

SpecWithRetry == Init /\ [][NextWithRetry]_vars

\* the passes alone over two stored articles and the stored subscriptions; the
\* cron trigger keeps invoking the handler, so a step of a pass that can be
\* taken is taken
NextLive ==
    \/ \E i \in OnePass : PerArticleStart(i) /\ Quiet
    \/ \E i \in OnePass : PerArticleSelect(i) /\ Quiet
    \/ \E i \in OnePass, answer \in Answers, d \in Delays : PerArticleSend(i, answer, d) /\ Quiet
    \/ \E i \in OnePass : PerArticleResolve(i) /\ Quiet
    \/ \E i \in OnePass : BatchStart(i) /\ Quiet
    \/ \E i \in OnePass, answer \in Answers, d \in Delays : BatchSend(i, answer, d) /\ Quiet
    \/ \E i \in OnePass : BatchResolve(i) /\ Quiet

SpecLive == InitFault /\ [][NextLive]_vars /\ WF_vars(NextLive)

\* the per-article pass, kept being triggered, between ingestions of the
\* stored url with changed content
NextReopen ==
    \/ \E p \in DOMAIN posts :
          \E source \in Sources \ {posts[p].source_username} :
              Ingest(p, source, 0) /\ Answer(ingestReply(p))
    \/ \E i \in OnePass : PerArticleStart(i) /\ Answer(NoReply)
    \/ \E i \in OnePass : PerArticleSelect(i) /\ Answer(NoReply)
    \/ \E i \in OnePass, answer \in Outcomes, d \in Delays :
          PerArticleSend(i, answer, d) /\ Answer(NoReply)
    \/ \E i \in OnePass : PerArticleResolve(i) /\ Answer(NoReply)

SpecReopen ==
    /\ InitLedger
    /\ [][NextReopen]_vars
    /\ WF_vars(\E i \in OnePass :
                  /\ \/ PerArticleStart(i)
                     \/ PerArticleSelect(i)
                     \/ \E answer \in Outcomes, d \in Delays : PerArticleSend(i, answer, d)
                     \/ PerArticleResolve(i)
                  /\ Answer(NoReply))

\* a backlog of one article more than a pass selects: every article but the
\* newest was dispatched once, recipient 1 failing and the others receiving it
InitBacklog ==
    /\ now = 0
    /\ posts = [p \in 1..(PostLimit + 1) |->
                   [source_username |-> "src1", post_date_ts |-> 0, published |-> 0]]
    /\ subs = [s \in Subs |-> ConfirmedRow(FilterAbsent, 0)]
    /\ deliveries = {[id |-> (p - 1) * NumSubs + s, post_id |-> p, subscription_id |-> s,
                      status |-> IF s = 1 THEN "failed" ELSE "sent",
                      retry_count |-> 0, last_retry_ts |-> Null] : p \in 1..PostLimit, s \in Subs}
    /\ passes = [i \in PassIds |-> IdlePass]
    /\ retry = IdleRetry
    /\ dispatched = {}
    /\ sentCount = [pr \in Posts \X Subs |-> 0]
    /\ rl = NoRL
    /\ attempts = [pr \in Posts \X Subs |-> 0]
    /\ limiter = NewLimiter
    /\ reply = NoReply
    /\ run = IdleRun

\* executeBroadcast over the backlog, kept being triggered
NextBacklog ==
    \/ \E i \in OnePass : PerArticleStart(i) /\ Quiet
    \/ \E i \in OnePass : PerArticleSelect(i) /\ Quiet
    \/ \E i \in OnePass, answer \in Answers, d \in Delays : PerArticleSend(i, answer, d) /\ Quiet
    \/ \E i \in OnePass : PerArticleResolve(i) /\ Quiet

SpecBacklog == InitBacklog /\ [][NextBacklog]_vars /\ WF_vars(NextBacklog)

\* the writers of the delivery ledger together: the per-article pass, the
\* retry round and the admin push
NextTerminal ==
    \/ \E i \in OnePass : PerArticleStart(i) /\ Quiet
    \/ \E i \in OnePass : PerArticleSelect(i) /\ Quiet
    \/ \E i \in OnePass, answer \in Outcomes, d \in Delays : PerArticleSend(i, answer, d) /\ Quiet
    \/ \E i \in OnePass : PerArticleResolve(i) /\ Quiet
    \/ RetryStart /\ Quiet
    \/ \E first \in Answers, second \in Answers, d \in Delays,
          thrown1 \in sendMessageThrows, thrown2 \in sendMessageThrows :
            RetryStep(first, second, d, thrown1, thrown2) /\ Quiet
    \/ \E force \in BOOLEAN, unreachable \in SUBSET Subs :
          handleAdminPush(0, {}, "none", force, NoAnswerFor(unreachable)) /\ Quiet

SpecTerminal == InitLedger /\ [][NextTerminal]_vars

\* the limiter alone: calls of waitForSend for any chat at any time
Unobserved == UNCHANGED <<sentCount, rl, attempts, reply, run>>

NextLimiter ==
    \/ LimiterTick /\ Unobserved
    \/ \E chatId \in Subs : waitForSend(chatId) /\ Unobserved
    \/ WaitGlobal /\ Unobserved
    \/ WaitChat /\ Unobserved

SpecLimiter == Init /\ [][NextLimiter]_vars

\* the chats of a burst that has just emptied the global bucket
CrowdChats == (NumSubs + 1)..(NumSubs + GlobalCapacity)

\* the limiter after waitForSend has returned once for each chat of the
\* burst, all within the same millisecond
BusyLimiter ==
    [manager |-> [globalLimiter |-> [tokens |-> 0, lastRefill |-> 0],
                  chatLimiters |-> [k \in CrowdChats |->
                                      [tokens |-> ChatCapacity - 1, lastRefill |-> 0]],
                  order |-> [j \in 1..GlobalCapacity |-> NumSubs + j]],
     call |-> IdleCall,
     granted |-> [j \in 1..GlobalCapacity |-> [at |-> 0, chatId |-> NumSubs + j]],
     taken |-> [j \in 1..(2 * GlobalCapacity) |->
                  [at |-> 0,
                   bucket |-> IF j % 2 = 1 THEN 0 ELSE NumSubs + (j \div 2)]]]

InitBusy ==
    /\ now = 0
    /\ posts = <<>>
    /\ subs = <<>>
    /\ deliveries = {}
    /\ passes = [i \in PassIds |-> IdlePass]
    /\ retry = IdleRetry
    /\ dispatched = {}
    /\ sentCount = [pr \in Posts \X Subs |-> 0]
    /\ rl = NoRL
    /\ attempts = [pr \in Posts \X Subs |-> 0]
    /\ limiter \in {NewLimiter, BusyLimiter}
    /\ reply = NoReply
    /\ run = IdleRun

\* the chat whose calls are followed
OneChat == {1}

\* calls of waitForSend for one chat, one at a time, while the clock
\* advances; a call starts while the clock has room for its two sleeps
NextAcquire ==
    \/ LimiterTick /\ Unobserved
    \/ \E chatId \in OneChat :
          /\ now + LimiterStepMs + MaxSleepMs <= MaxSeconds * 1000
          /\ waitForSend(chatId)
          /\ Unobserved
    \/ WaitGlobal /\ Unobserved
    \/ WaitChat /\ Unobserved

SpecAcquire ==
    /\ InitBusy
    /\ [][NextAcquire]_vars
    /\ WF_vars(LimiterTick /\ Unobserved)
    /\ WF_vars(WaitGlobal /\ Unobserved)
    /\ WF_vars(WaitChat /\ Unobserved)

\* calls of waitForSend for one chat at any time of the clock
NextBucket ==
    \/ LimiterTick /\ Unobserved
    \/ \E chatId \in OneChat : waitForSend(chatId) /\ Unobserved
    \/ WaitGlobal /\ Unobserved
    \/ WaitChat /\ Unobserved

SpecBucket == InitBusy /\ [][NextBucket]_vars

\* the gap between two calls of a sustained broadcast at the global rate
BurstGapMs == 1000 \div GlobalRate

\* the limiter after a broadcast to as many chats as the Map may hold
\* without being cleaned: one call for each chat, chat 1 first, at the global
\* rate, the last one a gap before the clock starts
CrowdedLimiter ==
    LET at(k) == 0 - (CleanupThreshold + 1 - k) * BurstGapMs
    IN [manager |-> [globalLimiter |-> [tokens |-> 0, lastRefill |-> at(CleanupThreshold)],
                     chatLimiters |-> [k \in 1..CleanupThreshold |->
                                         [tokens |-> ChatCapacity - 1, lastRefill |-> at(k)]],
                     order |-> [k \in 1..CleanupThreshold |-> k]],
        call |-> IdleCall,
        granted |-> [j \in 1..(GlobalRate - 1) |->
                        [at |-> at(CleanupThreshold - GlobalRate + 1 + j),
                         chatId |-> CleanupThreshold - GlobalRate + 1 + j]],
        taken |-> <<>>]

InitCrowded ==
    /\ now = 0
    /\ posts = <<>>
    /\ subs = <<>>
    /\ deliveries = {}
    /\ passes = [i \in PassIds |-> IdlePass]
    /\ retry = IdleRetry
    /\ dispatched = {}
    /\ sentCount = [pr \in Posts \X Subs |-> 0]
    /\ rl = NoRL
    /\ attempts = [pr \in Posts \X Subs |-> 0]
    /\ limiter = CrowdedLimiter
    /\ reply = NoReply
    /\ run = IdleRun

\* the next broadcast: calls for the oldest chat of the Map and for a chat
\* the Map does not hold yet, and the cleaning at the end of a pass
NextCleanup ==
    \/ LimiterTick /\ Unobserved
    \/ \E chatId \in OneChat \cup {CleanupThreshold + 1} :
          /\ now + LimiterStepMs + MaxSleepMs <= MaxSeconds * 1000
          /\ waitForSend(chatId)
          /\ Unobserved
    \/ WaitGlobal /\ Unobserved
    \/ WaitChat /\ Unobserved
    \/ cleanupInactiveLimiters /\ Unobserved

SpecCleanup == InitCrowded /\ [][NextCleanup]_vars

\* the whole program
Next ==
    \/ Tick /\ ObserveAll
    \/ \E p \in Posts, source \in Sources, date \in {0, TickMs} : Ingest(p, source, date) /\ ObserveAll
    \/ \E s \in Subs, filter \in FilterInputs : CreateSubscription(s, filter) /\ ObserveAll
    \/ \E s \in Subs : DeleteSubscription(s) /\ ObserveAll
    \/ \E i \in PassIds : PerArticleStart(i) /\ ObserveAll
    \/ \E i \in PassIds : PerArticleSelect(i) /\ ObserveAll
    \/ \E i \in PassIds, answer \in Answers, d \in Delays : PerArticleSend(i, answer, d) /\ ObserveAll
    \/ \E i \in PassIds : PerArticleResolve(i) /\ ObserveAll
    \/ \E i \in PassIds : BatchStart(i) /\ ObserveAll
    \/ \E i \in PassIds, answer \in Answers, d \in Delays : BatchSend(i, answer, d) /\ ObserveAll
    \/ \E i \in PassIds : BatchResolve(i) /\ ObserveAll
    \/ \E i \in PassIds : Abort(i) /\ ObserveAll
    \/ RetryStart /\ ObserveAll
    \/ \E first \in Answers, second \in Answers, d \in Delays,
          thrown1 \in sendMessageThrows, thrown2 \in sendMessageThrows :
            RetryStep(first, second, d, thrown1, thrown2) /\ ObserveAll
    \/ \E postId \in Posts \cup {0}, chatIds \in SUBSET Subs, dryRun \in BOOLEAN,
          force \in BOOLEAN, answers \in [Posts \X Subs -> {"ok", "network"}] :
            AdminPush(postId, chatIds, dryRun, force, answers) /\ ObserveAll
    \/ LimiterTick /\ Unobserved
    \/ \E chatId \in Subs : waitForSend(chatId) /\ Unobserved
    \/ WaitGlobal /\ Unobserved
    \/ WaitChat /\ Unobserved
    \/ \E s \in Subs : handleSubscribeCommand(s) /\ ObserveAll
    \/ \E token \in Tokens : ConfirmSubscription(token) /\ ObserveAll
    \/ \E i \in PassIds, tokenValid \in BOOLEAN, dbUp \in BOOLEAN, envSet \in BOOLEAN,
          queryFails \in BOOLEAN :
            scheduled(i, tokenValid, dbUp, envSet, queryFails) /\ ObserveAll
    \/ \E options \in RetryOptionInputs : withRetryStart(options) /\ Still
    \/ \E ok \in BOOLEAN, error \in ThrownInputs, random \in RandomInputs :
          withRetryCall(ok, error, random) /\ Still
    \/ withRetryWake /\ Still

Spec == Init /\ [][Next]_vars

\* ------------------------------------------------------------- claims
AllSent(p) == ActiveSubs # {} /\ \A s \in ActiveSubs : HasStatus(p, s, "sent")
Resolving(i) == passes[i].pc \in {"pa_resolve", "b_resolve"}

\* C1: across passes over the same stored state, a cut-off pass and the pass
\* that resumes included, no message for an article is sent by a pass to a
\* subscriber who at the moment of sending has a Delivery row with status
\* sent for that article.
C1_NoResendToSent ==
    \A e \in dispatched : e.by \in {"pass", "batch"} => ~e.hadSent

\* C3: the published flag of an article goes to 1 only at an evaluation where
\* the set of enabled and confirmed subscriptions is non-empty and each of
\* them has a sent Delivery row for the article, and the evaluation of a pass
\* at which that holds sets the flag.
C3_PublishedIffAllSent ==
    [][/\ \A p \in DOMAIN posts :
            (posts[p].published = 0 /\ posts'[p].published = 1) => AllSent(p)
       /\ \A i \in PassIds :
            (Resolving(i) /\ AllSent(Head(passes[i].queue).id))
                => isPostFullyPublished(Head(passes[i].queue).id)]_vars

\* C4: a step of a pass taken while the eligible-subscriber count of an
\* unpublished article is 0 leaves the published flag of the article at 0.
C4_ZeroEligibleStaysUnpublished ==
    [][\A p \in DOMAIN posts :
          (/\ posts[p].published = 0
           /\ getEligibleSubscriptions(posts[p].source_username) = <<>>)
              => posts'[p].published = 0]_vars

\* C5: with an enabled, confirmed subscriber S1 without a filter that has a
\* sent row for article A, and an enabled, confirmed subscriber S2 whose
\* filter excludes the source of A and who has no row for A, the evaluation
\* that ends the pass finds A fully published.
C5_FilteredOutDoesNotBlock ==
    \A i \in PassIds : \A s1 \in ActiveSubs, s2 \in ActiveSubs :
        LET a == Head(passes[i].queue).id
        IN (/\ Resolving(i)
            /\ subs[s1].filters_json = FilterAbsent
            /\ HasStatus(a, s1, "sent")
            /\ ~Eligible(s2, posts[a].source_username)
            /\ Row(a, s2) = {})
               => isPostFullyPublished(a)

\* C2: in every reachable state, under two overlapping passes, the retry
\* round and the admin push, each (article, subscriber) pair has at most one
\* Delivery row, and at most one transition into status sent has occurred
\* for it.
C2_OneRowOneSent ==
    \A p \in Posts, s \in Subs :
        /\ Cardinality(Row(p, s)) <= 1
        /\ sentCount[p, s] <= 1
        /\ \A d \in deliveries : d.post_id \in Posts /\ d.subscription_id \in Subs

\* a pass has sent to a subscriber whose row was already sent, while both
\* invocations are running: the second insert was rejected
C2_Witness ==
    /\ \A i \in PassIds : passes[i].pc # "idle"
    /\ \E e \in dispatched :
          /\ e.by \in {"pass", "batch"}
          /\ e.hadSent
          /\ Cardinality(Row(e.post, e.sub)) = 1
          /\ sentCount[e.post, e.sub] = 1

\* C6: every message dispatched for an article goes to a subscription that,
\* when it was selected, was enabled and confirmed with a filter matching the
\* source of the article.
C6_OnlyEligibleRecipients ==
    \A e \in dispatched : e.selected

\* C7: no periodic pass and no retry round sends an article to a subscriber
\* whose Delivery row for it had status permanently_failed when the pass or
\* the round selected the recipient.
C7_NoSendAfterPermanentFailure ==
    \A e \in dispatched : ~e.hadPermFailed

\* C8: the retry counter of every Delivery row is at most the configured
\* maximum, and a row that is not sent and whose failed attempts exceed the
\* maximum has status permanently_failed.
C8_RetryBound ==
    \A d \in deliveries :
        /\ d.retry_count <= MaxRetries
        /\ (d.status # "sent" /\ attempts[d.post_id, d.subscription_id] > MaxRetries)
              => d.status = "permanently_failed"

\* C9: when a dispatch answered with chat not found or blocked by the user
\* has been handled, the subscription has enabled = 0, is not among the
\* enabled and confirmed subscriptions, and its row is not selected for retry.
C9_RejectedIsDisabled ==
    \A e \in dispatched :
        e.answer = "blocked" =>
            /\ subs[e.sub].enabled = 0
            /\ e.sub \notin ActiveSubs
            /\ \A k \in 1..Len(getFailedDeliveries) :
                  Key(getFailedDeliveries[k]) # <<e.post, e.sub>>

\* C10: after a dispatch of an article to a subscriber was answered
\* rate-limited with resume delay d, no periodic pass and no retry round sends
\* the article to the subscriber before d has elapsed.
C10_NoSendBeforeResume ==
    [][\A e \in dispatched' :
          ~(rl.post = e.post /\ rl.sub = e.sub /\ now' < rl.until)]_vars

\* C11: when the gateway answers rate-limited with a resume delay above the
\* ceiling, the delivery is given up: its row is not left among those the
\* retry round selects, and nothing is scheduled for it.
C11_GiveUpAboveCeiling ==
    \A e \in dispatched :
        (e.answer = "rate_limited" /\ e.retry_after > RetryAfterCeiling) =>
            /\ \A k \in 1..Len(getFailedDeliveries) :
                  Key(getFailedDeliveries[k]) # <<e.post, e.sub>>
            /\ \A d \in Row(e.post, e.sub) : d.status # "failed"

\* C12: every gateway call that delivers an article (first attempt of a
\* pass, retry of a failed delivery, admin push) is preceded by a Limiter
\* acquire for the recipient, made for that call.
C12_AcquireBeforeEveryCall ==
    \A e \in dispatched : e.acquired

\* C13: for any arrival pattern of acquire calls, a burst against freshly
\* created buckets included, every rolling one-second window holds at most
\* ChatRate (1) granted acquisitions of one recipient and at most GlobalRate
\* (25) granted acquisitions in total.
C13_RollingSecond ==
    /\ Len(limiter.granted) <= GlobalRate
    /\ \A chatId \in Subs :
          Len(SelectSeq(limiter.granted, LAMBDA x : x.chatId = chatId)) <= ChatRate

\* C14: after every dispatch attempt of a pass for a pair, first or repeated,
\* succeeded or failed, the Delivery row of the pair reflects the outcome of
\* that attempt; a success after a recorded failure leaves the row sent.
C14_RowReflectsAttempt ==
    \A e \in dispatched :
        (e.by \in {"pass", "batch"} /\ ~e.hadSent) =>
            /\ Row(e.post, e.sub) # {}
            /\ \A d \in Row(e.post, e.sub) :
                  d.status = IF e.answer = "ok" THEN "sent" ELSE "failed"

\* C15: a pass that runs after a previous pass has finished, with no article
\* ingested and no subscription created or changed in between, creates no
\* new Delivery row and sends no message.
C15_RerunIsNoOp ==
    [][dispatched' = {} /\ deliveries' = deliveries]_vars

Active(ss, s) == s \in DOMAIN ss /\ ss[s].enabled = 1 /\ ss[s].confirmed = 1

\* C16: a subscribe request for a recipient with no record creates a pending
\* record, not confirmed, with a fresh token and an expiry; and a
\* subscription becomes enabled and confirmed only by a Confirm that
\* succeeds for it.
C16_SubscribeCreatesPending ==
    [][\A s \in Subs :
          /\ (s \notin DOMAIN subs /\ s \in DOMAIN subs') =>
                /\ subs'[s].confirmed = 0
                /\ subs'[s].confirm_token # Null
                /\ subs'[s].confirm_token_expire_ts > getCurrentTimestamp
          /\ (~Active(subs, s) /\ Active(subs', s)) =>
                (reply'.op = "confirm" /\ reply'.ok /\ reply'.chat = s)]_vars

C20_SubscribeActiveIsNoOp ==
    [][\A s \in DOMAIN subs :
          (reply'.op \in {"create", "subscribe"} /\ reply'.chat = s /\ Active(subs, s)) =>
              subs'[s] = subs[s]]_vars

\* C21: a subscribe request for a cancelled record makes it pending:
\* enabled, not confirmed, with a newly issued token, so that the recipient
\* is not eligible for a broadcast until a Confirm succeeds.
C21_ResubscribeIsPending ==
    [][\A s \in DOMAIN subs :
          (reply'.op \in {"create", "subscribe"} /\ reply'.chat = s /\ subs[s].enabled = 0) =>
              /\ subs'[s].enabled = 1
              /\ subs'[s].confirmed = 0
              /\ subs'[s].confirm_token # Null
              /\ s \notin {t \in DOMAIN subs' : Active(subs', t)}]_vars

\* C22: an unsubscribe request moves a pending or active record to cancelled
\* (not enabled, not confirmed) and keeps the row, and no subscription
\* transition (subscribe, confirm, unsubscribe, disable by the retry engine)
\* removes a Subscription row.
C22_RowsAreKept ==
    [][/\ DOMAIN subs \subseteq DOMAIN subs'
       /\ \A s \in DOMAIN subs :
             (reply'.op = "delete" /\ reply'.chat = s /\ subs[s].enabled # 0) =>
                 /\ s \in DOMAIN subs'
                 /\ subs'[s].enabled = 0
                 /\ subs'[s].confirmed = 0]_vars

\* A record that had been confirmed is cancelled and its row is still stored,
\* next to a record the retry engine disabled.
C22_Witness ==
    \E s \in DOMAIN subs :
        /\ reply.op = "delete" /\ reply.chat = s
        /\ subs[s].enabled = 0
        /\ subs[s].confirmed_at_ts # Null
        /\ \E t \in DOMAIN subs : subs[t].status = "disabled"

\* the content of a stored article differs from what the next state stores
ContentChanged(p) ==
    \/ posts'[p].source_username # posts[p].source_username
    \/ posts'[p].post_date_ts # posts[p].post_date_ts

\* C23: an ingestion of a stored article with changed content sets its
\* published flag to 0, whatever the flag was before.
C23_ChangedContentRequeues ==
    [][\A p \in DOMAIN posts :
          (reply'.op = "ingest" /\ reply'.chat = p /\ ContentChanged(p)) =>
              posts'[p].published = 0]_vars

\* C24: the published flag of an article drops from 1 to 0 only in an
\* ingestion of that article with changed content; an ingestion with the
\* same content, a failed delivery and a subscription change leave it as it is.
C24_PublishedDropsOnlyOnChange ==
    [][\A p \in DOMAIN posts :
          (posts[p].published = 1 /\ posts'[p].published = 0) =>
              (reply'.op = "ingest" /\ reply'.chat = p /\ ContentChanged(p))]_vars

\* A published article has been ingested again and is still published.
C24_Witness ==
    /\ reply.op = "ingest"
    /\ reply.result = "updated"
    /\ reply.chat \in DOMAIN posts
    /\ posts[reply.chat].published = 1

\* the gateway call of the step threw, or the INSERT of its delivery row was
\* rejected by the store
RecipientFault ==
    \E e \in dispatched' :
        /\ e.by \in {"pass", "batch"}
        /\ e.answer = "network" \/ deliveries' = deliveries

\* C25: a thrown fault or a storage error while one recipient is processed
\* does not end the pass: no selected article leaves the queue, and the pass
\* goes on with the next recipient, or with the resolution of its articles
\* when that recipient was the last.
C25_FaultDoesNotAbort ==
    [][\A i \in PassIds :
          (RecipientFault /\ passes'[i] # passes[i]) =>
              /\ passes'[i].queue = passes[i].queue
              /\ IF Tail(passes[i].recips) = <<>>
                 THEN passes'[i].pc \in {"pa_resolve", "b_resolve"}
                 ELSE /\ passes'[i].pc = passes[i].pc
                      /\ passes'[i].recips = Tail(passes[i].recips)]_vars

\* The call for one recipient threw, the pass holds the next recipient and a
\* second selected article.
C25_Witness ==
    \E i \in PassIds :
        /\ \E e \in dispatched : e.by \in {"pass", "batch"} /\ e.answer = "network"
        /\ passes[i].pc \in {"pa_send", "b_send"}
        /\ passes[i].recips # <<>>
        /\ Len(passes[i].queue) > 1

\* C26: an invocation whose validation fails skips the pass: it calls the
\* gateway for no recipient and changes no article, subscription or delivery
\* row, and no pass is started.
C26_FailedValidationSkips ==
    [][(reply'.op = "scheduled" /\ ~reply'.ok) =>
          /\ dispatched' = {}
          /\ posts' = posts /\ subs' = subs /\ deliveries' = deliveries
          /\ passes' = passes]_vars

\* The validation failed while an unpublished article and an eligible
\* recipient were stored.
C26_Witness ==
    /\ reply.op = "scheduled"
    /\ reply.result = "skipped"
    /\ getUnpublishedPosts(PostLimit) # <<>>
    /\ getAllActiveSubscriptions # <<>>

\* C27: after a successful validation no gateway or storage error of the
\* pass leaves the invocation as a thrown fault.
C27_NoFaultEscapes ==
    [][(reply'.op = "scheduled" /\ reply'.ok) => reply'.result # "thrown"]_vars

\* C28: an active subscription whose filter is absent or is an empty list is
\* eligible for every stored article, in the per-article selector
\* (getEligibleSubscriptions) and in the batched per-recipient selector
\* (filterPostsForSubscription).
C28_EmptyFilterMatchesAll ==
    \A s \in ActiveSubs : \A p \in DOMAIN posts :
        (subs[s].filters_json.kind = "absent" \/ subs[s].filters_json.usernames = {}) =>
            /\ s \in Range(getEligibleSubscriptions(posts[p].source_username))
            /\ filterPostsForSubscription(subs[s].filters_json, posts[p].source_username)

C30_DecisionCountsAttempt ==
    [][(/\ retry.pc = "retry"
        /\ dispatched' # {}
        /\ \A e \in dispatched' : e.by = "retry" /\ e.answer = "network") =>
          \A d \in deliveries : d.id = Head(retry.queue).id =>
              \E n \in deliveries' :
                  /\ n.id = d.id
                  /\ n.retry_count = d.retry_count + 1
                  /\ n.last_retry_ts = now]_vars

\* C31: an admin push that asks for the dry run calls the gateway for no
\* recipient, creates no Delivery row and changes the published flag of no
\* article.
C31_DryRunChangesNothing ==
    [][(reply'.op = "push" /\ reply'.result \in {"dryRun", "dry_run"}) =>
          /\ dispatched' = {}
          /\ deliveries' = deliveries
          /\ \A p \in DOMAIN posts : posts'[p].published = posts[p].published]_vars

\* C32: withRetry invokes the operation at most maxRetries + 1 times (4 with
\* the defaults), invokes it no more after an error that shouldRetry
\* rejects, and waits at most maxDelay between two invocations.
C32_WithRetryIsBounded ==
    /\ run.calls <= run.opts.maxRetries + 1
    /\ (run.opts.maxRetries = DEFAULT_RETRY_OPTIONS.maxRetries) => run.calls <= 4
    /\ (run.pc \in {"wait", "call"} /\ run.calls > 0) =>
            /\ shouldRetry(run.lastError)
            /\ run.calls <= run.opts.maxRetries
    /\ run.delayTime <= run.opts.maxDelay

\* The fourth invocation under the default number of retries threw, after a
\* wait that the ceiling cut.
C32_Witness ==
    /\ run.pc = "thrown"
    /\ run.calls = DEFAULT_RETRY_OPTIONS.maxRetries + 1
    /\ run.delayTime = run.opts.maxDelay

\* C33: while passes keep being triggered, an unpublished article whose
\* dispatches from some moment on all succeed, after failed attempts of
\* earlier passes or not, is eventually published.
C33_SuccessLeadsToPublished ==
    (<>[](\A e \in dispatched : e.answer = "ok")) =>
        <>(\A p \in DOMAIN posts : posts[p].published = 1)

C35_EveryArticleIsSelected ==
    \A p \in 1..(PostLimit + 1) :
        (posts[p].published = 0 /\ posts[p].post_date_ts <= now)
            ~> (\E i \in PassIds : \E k \in DOMAIN passes[i].queue :
                   passes[i].queue[k].id = p)

\* C36: a Delivery row whose status is sent, permanently_failed or
\* subscription_disabled keeps that status through every step of a pass, of
\* a retry round and of an admin push.
C36_TerminalStatusesStay ==
    [][\A d \in deliveries :
          d.status \in {"sent", "permanently_failed", "subscription_disabled"} =>
              \E e \in deliveries' : e.id = d.id /\ e.status = d.status]_vars

\* a retry round has run past a sent row and left a permanently failed one,
\* and a pass has called the recipient of the sent row again without success
C36_Witness ==
    /\ \E d \in deliveries : d.status = "permanently_failed"
    /\ \E d \in deliveries :
          /\ d.status = "sent"
          /\ \E e \in dispatched :
                /\ e.post = d.post_id /\ e.sub = d.subscription_id
                /\ e.hadSent /\ e.answer = "network"

\* C37: waitForSend takes the token of the global bucket only when the
\* bucket of the recipient holds a token too, so that a call that waits on
\* the bucket of the recipient has consumed no global token.
C37_GlobalTokenNeedsChatToken ==
    [][(limiter.call.pc = "global" /\ limiter'.call.pc = "chat") =>
          consume(getChatLimiter(limiter.manager, limiter.call.chatId, now),
                  ChatCapacity, ChatRate, now).ok]_vars

\* C38: while the clock keeps advancing every call of waitForSend returns,
\* and a refused check of a bucket is followed by a sleep of positive length
\* before the next check.
C38_AcquireReturns ==
    /\ (limiter.call.pc # "idle") ~> (limiter.call.pc = "idle")
    /\ [](LET g == consume(limiter.manager.globalLimiter, GlobalCapacity, GlobalRate, now)
               c == consume(getChatLimiter(limiter.manager, limiter.call.chatId, now),
                            ChatCapacity, ChatRate, now)
           IN /\ (limiter.call.pc = "global" /\ ~g.ok) => sleepTime(g.bucket, GlobalRate) > 0
              /\ (limiter.call.pc = "chat" /\ ~c.ok) => sleepTime(c.bucket, ChatRate) > 0)

\* a call sleeps after a refused check of the empty global bucket
C38_Witness ==
    /\ limiter.call.pc = "global"
    /\ limiter.call.wake > now
    /\ limiter.manager.globalLimiter.tokens = 0

\* C39: the cleaning discards the bucket of a chat only after the chat has
\* been idle for longer than the retention time, which is no shorter than
\* the second a token takes to come back: a bucket that granted a token
\* within the last second is kept.
C39_RecentBucketIsKept ==
    [][\A k \in DOMAIN limiter.manager.chatLimiters :
          (\E j \in 1..Len(limiter.granted) : limiter.granted[j].chatId = k) =>
              k \in DOMAIN limiter'.manager.chatLimiters]_vars

\* the capacity and the refill rate of a bucket: 0 is the global bucket
capacityOf(b) == IF b = 0 THEN GlobalCapacity ELSE ChatCapacity
refillRateOf(b) == IF b = 0 THEN GlobalRate ELSE ChatRate

\* the tokens taken from bucket b between the times from and to
takenBetween(b, from, to) ==
    Cardinality({j \in 1..Len(limiter.taken) :
                    /\ limiter.taken[j].bucket = b
                    /\ from <= limiter.taken[j].at /\ limiter.taken[j].at <= to})

\* C40: over every interval of T seconds a bucket grants at most
\* capacity + refillRate * T tokens, and it holds between 0 and capacity
\* tokens at any time.
C40_GrantsAreBounded ==
    LET m == limiter.manager
        grid == {k * LimiterStepMs : k \in 0..(now \div LimiterStepMs)}
    IN /\ m.globalLimiter.tokens \in 0..GlobalCapacity
       /\ \A k \in DOMAIN m.chatLimiters : m.chatLimiters[k].tokens \in 0..ChatCapacity
       /\ \A b \in {0} \cup DOMAIN m.chatLimiters : \A from \in grid, to \in grid :
              from <= to =>
                  1000 * takenBetween(b, from, to)
                      <= 1000 * capacityOf(b) + refillRateOf(b) * (to - from)

\* a bucket has been emptied, has been refilled by the clock and has
\* granted again
C40_Witness ==
    /\ now > 0
    /\ \E j \in 1..Len(limiter.taken) : limiter.taken[j].bucket = 0 /\ limiter.taken[j].at > 0
    /\ \E k \in OneChat :
          /\ takenBetween(k, 0, 0) = ChatCapacity
          /\ takenBetween(k, LimiterStepMs, now) > 0

====
